---------------------------- MODULE Spec2Model ----------------------------
(***************************************************************************)
(* Match engine of motm-backend: Team construction (models.py), the        *)
(* matrix builder (matrices.py), the evaluation engine (evaluation.py),    *)
(* the minute-by-minute simulator (simulator.py) and the statistics        *)
(* aggregator (statistics.py).                                             *)
(*                                                                         *)
(* Conventions.  Probabilities and random numbers are integers in units    *)
(* of 1/10000.  A weight map (an ordered Python dict) is a sequence of     *)
(* <<key, weight>> pairs in insertion order.  A normalised row v/total is  *)
(* kept as its numerators v over the common denominator total, so that a   *)
(* weight is positive, and two weights compare, exactly as in the floats.  *)
(* The absent value None is the string "None"; a player is a record and    *)
(* the absent player is NoPlayer.                                          *)
(***************************************************************************)
EXTENDS Integers, Sequences, FiniteSets, TLC

VARIABLES
    rng,     \* state of the process-global generator of module random
    sim,     \* the teams under construction, then the MatchSimulator and the frames of run()
    bench    \* the caller: its seed, the logs of earlier runs, the stats of a batch

vars == <<rng, sim, bench>>

None == "None"

(***************************************************************************)
(* Bounds of the model                                                     *)
(***************************************************************************)
MaxSeed == 400
MaxMinutes == 3
MaxMatches == 3
MaxReplaySeed == 50
MaxPairSeed == 40
MaxSwitches == 2
MaxFinisherSeed == 900
MaxCreatorIndex == 3
MaxDefenderSeed == 35000
MaxEvalSeed == 20
MaxKeeperSeed == 300
MaxSetPieceSeed == 40
MaxAwardRoll == 400


(***************************************************************************)
(* Static tables of constants.py, matrices.py and evaluation.py             *)
(***************************************************************************)
\* constants.py: the 13 outfield position codes, in declaration order
POSITIONS ==
    <<"DL", "DC", "DR", "DML", "DMC", "DMR", "ML", "MC", "MR", "OML", "OMC", "OMR", "FC">>

\* constants.py: attributes required of an outfield player
OUTFIELD_ATTRS ==
    <<"Finishing", "Tackling", "Marking", "Heading", "Passing", "Crossing", "Ball Control", "Positioning", "Vision", "Composure", "Work Rate", "Strength", "Stamina", "Acceleration", "Agility", "Jump Reach">>

\* constants.py: attributes required of a goalkeeper
GOALKEEPER_ATTRS ==
    <<"Positioning", "Command of Area", "Composure", "Work Rate", "Strength", "Stamina", "Acceleration", "Agility", "Jump Reach", "Reflexes", "Handling", "One-on-One", "Aerial Reach">>

\* constants.py
CHANCE_TYPES ==
    <<"Short", "Long", "Crossing", "Through", "Solo">>

\* constants.py
FINISH_TYPES ==
    <<"FirstTime", "Controlled", "Header", "Chip", "Finesse", "Power">>

\* statistics.py: skills that must not appear for outfield players
GK_ONLY_SKILLS ==
    {"Aerial Reach", "Command of Area", "Handling", "One-on-One", "Reflexes"}

\* matrices.py: position -> base chance creation weight (ordered as the dict literal)
BASE_CREATOR_MATRIX ==
    <<<<"DL", 6>>, <<"DC", 1>>, <<"DR", 6>>, <<"DML", 10>>, <<"DMC", 6>>, <<"DMR", 10>>, <<"ML", 10>>, <<"MC", 10>>, <<"MR", 10>>, <<"OML", 12>>, <<"OMC", 15>>, <<"OMR", 12>>, <<"FC", 12>>>>

\* matrices.py: creator position -> ordered (defender position, weight) row
BASE_CREATOR_DEFEND_MATRIX ==
    ("DL" :> <<<<"DL", 0>>, <<"DC", 1>>, <<"DR", 50>>, <<"DML", 0>>, <<"DMC", 30>>, <<"DMR", 50>>, <<"ML", 0>>, <<"MC", 50>>, <<"MR", 100>>, <<"OML", 0>>, <<"OMC", 0>>, <<"OMR", 100>>, <<"FC", 50>>>>
     @@ "DC" :> <<<<"DL", 0>>, <<"DC", 1>>, <<"DR", 0>>, <<"DML", 0>>, <<"DMC", 0>>, <<"DMR", 0>>, <<"ML", 30>>, <<"MC", 50>>, <<"MR", 0>>, <<"OML", 0>>, <<"OMC", 0>>, <<"OMR", 0>>, <<"FC", 100>>>>
     @@ "DR" :> <<<<"DL", 50>>, <<"DC", 1>>, <<"DR", 0>>, <<"DML", 0>>, <<"DMC", 0>>, <<"DMR", 0>>, <<"ML", 100>>, <<"MC", 100>>, <<"MR", 0>>, <<"OML", 50>>, <<"OMC", 100>>, <<"OMR", 50>>, <<"FC", 100>>>>
     @@ "DML" :> <<<<"DL", 0>>, <<"DC", 1>>, <<"DR", 0>>, <<"DML", 0>>, <<"DMC", 0>>, <<"DMR", 0>>, <<"ML", 0>>, <<"MC", 50>>, <<"MR", 0>>, <<"OML", 0>>, <<"OMC", 0>>, <<"OMR", 0>>, <<"FC", 0>>>>
     @@ "DMC" :> <<<<"DL", 0>>, <<"DC", 1>>, <<"DR", 0>>, <<"DML", 100>>, <<"DMC", 50>>, <<"DMR", 0>>, <<"ML", 0>>, <<"MC", 50>>, <<"MR", 0>>, <<"OML", 100>>, <<"OMC", 0>>, <<"OMR", 0>>, <<"FC", 0>>>>
     @@ "DMR" :> <<<<"DL", 0>>, <<"DC", 1>>, <<"DR", 0>>, <<"DML", 0>>, <<"DMC", 50>>, <<"DMR", 0>>, <<"ML", 0>>, <<"MC", 0>>, <<"MR", 0>>, <<"OML", 0>>, <<"OMC", 0>>, <<"OMR", 0>>, <<"FC", 0>>>>
     @@ "ML" :> <<<<"DL", 0>>, <<"DC", 1>>, <<"DR", 0>>, <<"DML", 0>>, <<"DMC", 0>>, <<"DMR", 0>>, <<"ML", 100>>, <<"MC", 50>>, <<"MR", 100>>, <<"OML", 0>>, <<"OMC", 0>>, <<"OMR", 0>>, <<"FC", 0>>>>
     @@ "MC" :> <<<<"DL", 0>>, <<"DC", 1>>, <<"DR", 0>>, <<"DML", 10>>, <<"DMC", 50>>, <<"DMR", 10>>, <<"ML", 10>>, <<"MC", 50>>, <<"MR", 10>>, <<"OML", 10>>, <<"OMC", 10>>, <<"OMR", 10>>, <<"FC", 0>>>>
     @@ "MR" :> <<<<"DL", 100>>, <<"DC", 50>>, <<"DR", 0>>, <<"DML", 0>>, <<"DMC", 0>>, <<"DMR", 0>>, <<"ML", 0>>, <<"MC", 0>>, <<"MR", 0>>, <<"OML", 0>>, <<"OMC", 0>>, <<"OMR", 0>>, <<"FC", 0>>>>
     @@ "OML" :> <<<<"DL", 0>>, <<"DC", 1>>, <<"DR", 0>>, <<"DML", 0>>, <<"DMC", 0>>, <<"DMR", 0>>, <<"ML", 0>>, <<"MC", 0>>, <<"MR", 0>>, <<"OML", 0>>, <<"OMC", 0>>, <<"OMR", 0>>, <<"FC", 0>>>>
     @@ "OMC" :> <<<<"DL", 50>>, <<"DC", 50>>, <<"DR", 0>>, <<"DML", 100>>, <<"DMC", 50>>, <<"DMR", 0>>, <<"ML", 0>>, <<"MC", 0>>, <<"MR", 0>>, <<"OML", 0>>, <<"OMC", 0>>, <<"OMR", 30>>, <<"FC", 0>>>>
     @@ "OMR" :> <<<<"DL", 100>>, <<"DC", 1>>, <<"DR", 0>>, <<"DML", 0>>, <<"DMC", 0>>, <<"DMR", 0>>, <<"ML", 0>>, <<"MC", 0>>, <<"MR", 0>>, <<"OML", 0>>, <<"OMC", 0>>, <<"OMR", 0>>, <<"FC", 0>>>>
     @@ "FC" :> <<<<"DL", 50>>, <<"DC", 100>>, <<"DR", 50>>, <<"DML", 10>>, <<"DMC", 0>>, <<"DMR", 10>>, <<"ML", 0>>, <<"MC", 0>>, <<"MR", 0>>, <<"OML", 10>>, <<"OMC", 0>>, <<"OMR", 0>>, <<"FC", 0>>>>)

\* matrices.py: creator position -> ordered (chance type, weight) row
CREATOR_CHANCE_TYPE_MATRIX ==
    ("DL" :> <<<<"Short", 15>>, <<"Long", 15>>, <<"Crossing", 55>>, <<"Through", 10>>, <<"Solo", 5>>>>
     @@ "DC" :> <<<<"Short", 20>>, <<"Long", 65>>, <<"Crossing", 5>>, <<"Through", 10>>, <<"Solo", 0>>>>
     @@ "DR" :> <<<<"Short", 15>>, <<"Long", 15>>, <<"Crossing", 55>>, <<"Through", 10>>, <<"Solo", 5>>>>
     @@ "DML" :> <<<<"Short", 20>>, <<"Long", 15>>, <<"Crossing", 45>>, <<"Through", 15>>, <<"Solo", 5>>>>
     @@ "DMC" :> <<<<"Short", 40>>, <<"Long", 35>>, <<"Crossing", 5>>, <<"Through", 15>>, <<"Solo", 5>>>>
     @@ "DMR" :> <<<<"Short", 20>>, <<"Long", 15>>, <<"Crossing", 45>>, <<"Through", 15>>, <<"Solo", 5>>>>
     @@ "ML" :> <<<<"Short", 25>>, <<"Long", 5>>, <<"Crossing", 45>>, <<"Through", 10>>, <<"Solo", 15>>>>
     @@ "MC" :> <<<<"Short", 40>>, <<"Long", 20>>, <<"Crossing", 5>>, <<"Through", 25>>, <<"Solo", 10>>>>
     @@ "MR" :> <<<<"Short", 25>>, <<"Long", 5>>, <<"Crossing", 45>>, <<"Through", 10>>, <<"Solo", 15>>>>
     @@ "OML" :> <<<<"Short", 15>>, <<"Long", 5>>, <<"Crossing", 40>>, <<"Through", 15>>, <<"Solo", 25>>>>
     @@ "OMC" :> <<<<"Short", 40>>, <<"Long", 5>>, <<"Crossing", 5>>, <<"Through", 30>>, <<"Solo", 20>>>>
     @@ "OMR" :> <<<<"Short", 15>>, <<"Long", 5>>, <<"Crossing", 40>>, <<"Through", 15>>, <<"Solo", 25>>>>
     @@ "FC" :> <<<<"Short", 35>>, <<"Long", 5>>, <<"Crossing", 5>>, <<"Through", 25>>, <<"Solo", 30>>>>)

\* matrices.py
BASE_FINISHER_SHORT_PASS_MATRIX ==
    ("DL" :> <<<<"DL", 0>>, <<"DC", 30>>, <<"DR", 0>>, <<"DML", 0>>, <<"DMC", 50>>, <<"DMR", 0>>, <<"ML", 100>>, <<"MC", 100>>, <<"MR", 0>>, <<"OML", 100>>, <<"OMC", 50>>, <<"OMR", 0>>, <<"FC", 50>>>>
     @@ "DC" :> <<<<"DL", 50>>, <<"DC", 0>>, <<"DR", 50>>, <<"DML", 100>>, <<"DMC", 100>>, <<"DMR", 100>>, <<"ML", 100>>, <<"MC", 100>>, <<"MR", 100>>, <<"OML", 100>>, <<"OMC", 100>>, <<"OMR", 100>>, <<"FC", 50>>>>
     @@ "DR" :> <<<<"DL", 0>>, <<"DC", 30>>, <<"DR", 0>>, <<"DML", 0>>, <<"DMC", 50>>, <<"DMR", 0>>, <<"ML", 0>>, <<"MC", 100>>, <<"MR", 100>>, <<"OML", 0>>, <<"OMC", 50>>, <<"OMR", 100>>, <<"FC", 50>>>>
     @@ "DML" :> <<<<"DL", 0>>, <<"DC", 30>>, <<"DR", 0>>, <<"DML", 0>>, <<"DMC", 50>>, <<"DMR", 0>>, <<"ML", 100>>, <<"MC", 100>>, <<"MR", 0>>, <<"OML", 100>>, <<"OMC", 50>>, <<"OMR", 0>>, <<"FC", 50>>>>
     @@ "DMC" :> <<<<"DL", 0>>, <<"DC", 0>>, <<"DR", 0>>, <<"DML", 50>>, <<"DMC", 50>>, <<"DMR", 50>>, <<"ML", 100>>, <<"MC", 100>>, <<"MR", 100>>, <<"OML", 100>>, <<"OMC", 100>>, <<"OMR", 100>>, <<"FC", 50>>>>
     @@ "DMR" :> <<<<"DL", 0>>, <<"DC", 30>>, <<"DR", 0>>, <<"DML", 0>>, <<"DMC", 50>>, <<"DMR", 0>>, <<"ML", 0>>, <<"MC", 100>>, <<"MR", 100>>, <<"OML", 0>>, <<"OMC", 50>>, <<"OMR", 100>>, <<"FC", 50>>>>
     @@ "ML" :> <<<<"DL", 30>>, <<"DC", 0>>, <<"DR", 0>>, <<"DML", 30>>, <<"DMC", 100>>, <<"DMR", 0>>, <<"ML", 0>>, <<"MC", 100>>, <<"MR", 0>>, <<"OML", 0>>, <<"OMC", 100>>, <<"OMR", 0>>, <<"FC", 50>>>>
     @@ "MC" :> <<<<"DL", 0>>, <<"DC", 0>>, <<"DR", 0>>, <<"DML", 30>>, <<"DMC", 50>>, <<"DMR", 30>>, <<"ML", 100>>, <<"MC", 100>>, <<"MR", 100>>, <<"OML", 100>>, <<"OMC", 100>>, <<"OMR", 100>>, <<"FC", 100>>>>
     @@ "MR" :> <<<<"DL", 0>>, <<"DC", 0>>, <<"DR", 30>>, <<"DML", 0>>, <<"DMC", 100>>, <<"DMR", 30>>, <<"ML", 0>>, <<"MC", 100>>, <<"MR", 0>>, <<"OML", 0>>, <<"OMC", 100>>, <<"OMR", 0>>, <<"FC", 50>>>>
     @@ "OML" :> <<<<"DL", 30>>, <<"DC", 0>>, <<"DR", 0>>, <<"DML", 30>>, <<"DMC", 30>>, <<"DMR", 0>>, <<"ML", 0>>, <<"MC", 50>>, <<"MR", 0>>, <<"OML", 0>>, <<"OMC", 100>>, <<"OMR", 0>>, <<"FC", 100>>>>
     @@ "OMC" :> <<<<"DL", 0>>, <<"DC", 0>>, <<"DR", 0>>, <<"DML", 30>>, <<"DMC", 30>>, <<"DMR", 30>>, <<"ML", 50>>, <<"MC", 50>>, <<"MR", 50>>, <<"OML", 100>>, <<"OMC", 100>>, <<"OMR", 100>>, <<"FC", 100>>>>
     @@ "OMR" :> <<<<"DL", 0>>, <<"DC", 0>>, <<"DR", 30>>, <<"DML", 0>>, <<"DMC", 30>>, <<"DMR", 30>>, <<"ML", 0>>, <<"MC", 50>>, <<"MR", 0>>, <<"OML", 0>>, <<"OMC", 100>>, <<"OMR", 0>>, <<"FC", 100>>>>
     @@ "FC" :> <<<<"DL", 0>>, <<"DC", 0>>, <<"DR", 0>>, <<"DML", 30>>, <<"DMC", 30>>, <<"DMR", 30>>, <<"ML", 30>>, <<"MC", 50>>, <<"MR", 30>>, <<"OML", 100>>, <<"OMC", 100>>, <<"OMR", 100>>, <<"FC", 100>>>>)

\* matrices.py
BASE_FINISHER_CROSSING_MATRIX ==
    ("DL" :> <<<<"DL", 0>>, <<"DC", 0>>, <<"DR", 30>>, <<"DML", 0>>, <<"DMC", 30>>, <<"DMR", 30>>, <<"ML", 0>>, <<"MC", 50>>, <<"MR", 50>>, <<"OML", 0>>, <<"OMC", 100>>, <<"OMR", 50>>, <<"FC", 100>>>>
     @@ "DC" :> <<<<"DL", 0>>, <<"DC", 0>>, <<"DR", 0>>, <<"DML", 0>>, <<"DMC", 0>>, <<"DMR", 0>>, <<"ML", 50>>, <<"MC", 50>>, <<"MR", 50>>, <<"OML", 100>>, <<"OMC", 100>>, <<"OMR", 100>>, <<"FC", 100>>>>
     @@ "DR" :> <<<<"DL", 30>>, <<"DC", 0>>, <<"DR", 0>>, <<"DML", 30>>, <<"DMC", 30>>, <<"DMR", 0>>, <<"ML", 50>>, <<"MC", 50>>, <<"MR", 0>>, <<"OML", 50>>, <<"OMC", 100>>, <<"OMR", 0>>, <<"FC", 100>>>>
     @@ "DML" :> <<<<"DL", 0>>, <<"DC", 0>>, <<"DR", 30>>, <<"DML", 0>>, <<"DMC", 30>>, <<"DMR", 30>>, <<"ML", 0>>, <<"MC", 50>>, <<"MR", 50>>, <<"OML", 0>>, <<"OMC", 50>>, <<"OMR", 50>>, <<"FC", 100>>>>
     @@ "DMC" :> <<<<"DL", 0>>, <<"DC", 0>>, <<"DR", 0>>, <<"DML", 0>>, <<"DMC", 0>>, <<"DMR", 0>>, <<"ML", 50>>, <<"MC", 50>>, <<"MR", 50>>, <<"OML", 100>>, <<"OMC", 100>>, <<"OMR", 100>>, <<"FC", 100>>>>
     @@ "DMR" :> <<<<"DL", 30>>, <<"DC", 0>>, <<"DR", 0>>, <<"DML", 30>>, <<"DMC", 30>>, <<"DMR", 0>>, <<"ML", 50>>, <<"MC", 50>>, <<"MR", 0>>, <<"OML", 50>>, <<"OMC", 50>>, <<"OMR", 0>>, <<"FC", 100>>>>
     @@ "ML" :> <<<<"DL", 0>>, <<"DC", 0>>, <<"DR", 30>>, <<"DML", 0>>, <<"DMC", 30>>, <<"DMR", 30>>, <<"ML", 0>>, <<"MC", 50>>, <<"MR", 50>>, <<"OML", 0>>, <<"OMC", 50>>, <<"OMR", 100>>, <<"FC", 100>>>>
     @@ "MC" :> <<<<"DL", 0>>, <<"DC", 0>>, <<"DR", 0>>, <<"DML", 0>>, <<"DMC", 0>>, <<"DMR", 0>>, <<"ML", 50>>, <<"MC", 50>>, <<"MR", 50>>, <<"OML", 100>>, <<"OMC", 100>>, <<"OMR", 100>>, <<"FC", 100>>>>
     @@ "MR" :> <<<<"DL", 30>>, <<"DC", 0>>, <<"DR", 0>>, <<"DML", 30>>, <<"DMC", 30>>, <<"DMR", 0>>, <<"ML", 50>>, <<"MC", 50>>, <<"MR", 0>>, <<"OML", 100>>, <<"OMC", 50>>, <<"OMR", 0>>, <<"FC", 100>>>>
     @@ "OML" :> <<<<"DL", 0>>, <<"DC", 0>>, <<"DR", 30>>, <<"DML", 0>>, <<"DMC", 30>>, <<"DMR", 30>>, <<"ML", 0>>, <<"MC", 50>>, <<"MR", 50>>, <<"OML", 0>>, <<"OMC", 50>>, <<"OMR", 100>>, <<"FC", 100>>>>
     @@ "OMC" :> <<<<"DL", 0>>, <<"DC", 0>>, <<"DR", 0>>, <<"DML", 0>>, <<"DMC", 0>>, <<"DMR", 0>>, <<"ML", 50>>, <<"MC", 50>>, <<"MR", 50>>, <<"OML", 100>>, <<"OMC", 100>>, <<"OMR", 100>>, <<"FC", 100>>>>
     @@ "OMR" :> <<<<"DL", 30>>, <<"DC", 0>>, <<"DR", 0>>, <<"DML", 30>>, <<"DMC", 30>>, <<"DMR", 0>>, <<"ML", 50>>, <<"MC", 50>>, <<"MR", 0>>, <<"OML", 100>>, <<"OMC", 50>>, <<"OMR", 0>>, <<"FC", 100>>>>
     @@ "FC" :> <<<<"DL", 0>>, <<"DC", 0>>, <<"DR", 0>>, <<"DML", 0>>, <<"DMC", 0>>, <<"DMR", 0>>, <<"ML", 50>>, <<"MC", 50>>, <<"MR", 50>>, <<"OML", 100>>, <<"OMC", 100>>, <<"OMR", 100>>, <<"FC", 100>>>>)

\* matrices.py
BASE_FINISHER_THROUGH_MATRIX ==
    ("DL" :> <<<<"DL", 0>>, <<"DC", 0>>, <<"DR", 0>>, <<"DML", 0>>, <<"DMC", 0>>, <<"DMR", 0>>, <<"ML", 50>>, <<"MC", 50>>, <<"MR", 0>>, <<"OML", 50>>, <<"OMC", 100>>, <<"OMR", 30>>, <<"FC", 100>>>>
     @@ "DC" :> <<<<"DL", 0>>, <<"DC", 0>>, <<"DR", 0>>, <<"DML", 0>>, <<"DMC", 0>>, <<"DMR", 0>>, <<"ML", 50>>, <<"MC", 50>>, <<"MR", 50>>, <<"OML", 100>>, <<"OMC", 100>>, <<"OMR", 100>>, <<"FC", 100>>>>
     @@ "DR" :> <<<<"DL", 0>>, <<"DC", 0>>, <<"DR", 0>>, <<"DML", 0>>, <<"DMC", 0>>, <<"DMR", 0>>, <<"ML", 0>>, <<"MC", 50>>, <<"MR", 50>>, <<"OML", 30>>, <<"OMC", 100>>, <<"OMR", 50>>, <<"FC", 100>>>>
     @@ "DML" :> <<<<"DL", 0>>, <<"DC", 0>>, <<"DR", 0>>, <<"DML", 0>>, <<"DMC", 0>>, <<"DMR", 0>>, <<"ML", 50>>, <<"MC", 50>>, <<"MR", 0>>, <<"OML", 100>>, <<"OMC", 100>>, <<"OMR", 50>>, <<"FC", 100>>>>
     @@ "DMC" :> <<<<"DL", 0>>, <<"DC", 0>>, <<"DR", 0>>, <<"DML", 0>>, <<"DMC", 0>>, <<"DMR", 0>>, <<"ML", 30>>, <<"MC", 50>>, <<"MR", 30>>, <<"OML", 100>>, <<"OMC", 100>>, <<"OMR", 100>>, <<"FC", 100>>>>
     @@ "DMR" :> <<<<"DL", 0>>, <<"DC", 0>>, <<"DR", 0>>, <<"DML", 0>>, <<"DMC", 0>>, <<"DMR", 0>>, <<"ML", 0>>, <<"MC", 50>>, <<"MR", 50>>, <<"OML", 50>>, <<"OMC", 100>>, <<"OMR", 100>>, <<"FC", 100>>>>
     @@ "ML" :> <<<<"DL", 0>>, <<"DC", 0>>, <<"DR", 0>>, <<"DML", 0>>, <<"DMC", 0>>, <<"DMR", 0>>, <<"ML", 0>>, <<"MC", 30>>, <<"MR", 0>>, <<"OML", 0>>, <<"OMC", 100>>, <<"OMR", 50>>, <<"FC", 100>>>>
     @@ "MC" :> <<<<"DL", 0>>, <<"DC", 0>>, <<"DR", 0>>, <<"DML", 0>>, <<"DMC", 0>>, <<"DMR", 0>>, <<"ML", 30>>, <<"MC", 30>>, <<"MR", 30>>, <<"OML", 100>>, <<"OMC", 100>>, <<"OMR", 100>>, <<"FC", 1000>>>>
     @@ "MR" :> <<<<"DL", 0>>, <<"DC", 0>>, <<"DR", 0>>, <<"DML", 0>>, <<"DMC", 0>>, <<"DMR", 0>>, <<"ML", 0>>, <<"MC", 30>>, <<"MR", 0>>, <<"OML", 50>>, <<"OMC", 100>>, <<"OMR", 0>>, <<"FC", 100>>>>
     @@ "OML" :> <<<<"DL", 0>>, <<"DC", 0>>, <<"DR", 0>>, <<"DML", 0>>, <<"DMC", 0>>, <<"DMR", 0>>, <<"ML", 0>>, <<"MC", 50>>, <<"MR", 30>>, <<"OML", 0>>, <<"OMC", 100>>, <<"OMR", 50>>, <<"FC", 100>>>>
     @@ "OMC" :> <<<<"DL", 0>>, <<"DC", 0>>, <<"DR", 0>>, <<"DML", 0>>, <<"DMC", 0>>, <<"DMR", 0>>, <<"ML", 50>>, <<"MC", 50>>, <<"MR", 50>>, <<"OML", 100>>, <<"OMC", 100>>, <<"OMR", 100>>, <<"FC", 100>>>>
     @@ "OMR" :> <<<<"DL", 0>>, <<"DC", 0>>, <<"DR", 0>>, <<"DML", 0>>, <<"DMC", 0>>, <<"DMR", 0>>, <<"ML", 30>>, <<"MC", 50>>, <<"MR", 0>>, <<"OML", 50>>, <<"OMC", 100>>, <<"OMR", 0>>, <<"FC", 100>>>>
     @@ "FC" :> <<<<"DL", 0>>, <<"DC", 0>>, <<"DR", 0>>, <<"DML", 0>>, <<"DMC", 0>>, <<"DMR", 0>>, <<"ML", 30>>, <<"MC", 30>>, <<"MR", 30>>, <<"OML", 100>>, <<"OMC", 100>>, <<"OMR", 100>>, <<"FC", 100>>>>)

\* matrices.py
BASE_FINISHER_LONG_PASS_MATRIX ==
    ("DL" :> <<<<"DL", 0>>, <<"DC", 0>>, <<"DR", 0>>, <<"DML", 0>>, <<"DMC", 0>>, <<"DMR", 0>>, <<"ML", 50>>, <<"MC", 50>>, <<"MR", 50>>, <<"OML", 100>>, <<"OMC", 100>>, <<"OMR", 100>>, <<"FC", 100>>>>
     @@ "DC" :> <<<<"DL", 0>>, <<"DC", 0>>, <<"DR", 0>>, <<"DML", 0>>, <<"DMC", 0>>, <<"DMR", 0>>, <<"ML", 50>>, <<"MC", 50>>, <<"MR", 50>>, <<"OML", 100>>, <<"OMC", 100>>, <<"OMR", 100>>, <<"FC", 100>>>>
     @@ "DR" :> <<<<"DL", 0>>, <<"DC", 0>>, <<"DR", 0>>, <<"DML", 0>>, <<"DMC", 0>>, <<"DMR", 0>>, <<"ML", 50>>, <<"MC", 50>>, <<"MR", 50>>, <<"OML", 100>>, <<"OMC", 100>>, <<"OMR", 100>>, <<"FC", 100>>>>
     @@ "DML" :> <<<<"DL", 0>>, <<"DC", 0>>, <<"DR", 0>>, <<"DML", 0>>, <<"DMC", 0>>, <<"DMR", 0>>, <<"ML", 50>>, <<"MC", 50>>, <<"MR", 50>>, <<"OML", 100>>, <<"OMC", 100>>, <<"OMR", 100>>, <<"FC", 100>>>>
     @@ "DMC" :> <<<<"DL", 0>>, <<"DC", 0>>, <<"DR", 0>>, <<"DML", 0>>, <<"DMC", 0>>, <<"DMR", 0>>, <<"ML", 30>>, <<"MC", 30>>, <<"MR", 30>>, <<"OML", 100>>, <<"OMC", 100>>, <<"OMR", 100>>, <<"FC", 100>>>>
     @@ "DMR" :> <<<<"DL", 0>>, <<"DC", 0>>, <<"DR", 0>>, <<"DML", 0>>, <<"DMC", 0>>, <<"DMR", 0>>, <<"ML", 50>>, <<"MC", 50>>, <<"MR", 50>>, <<"OML", 100>>, <<"OMC", 100>>, <<"OMR", 100>>, <<"FC", 100>>>>
     @@ "ML" :> <<<<"DL", 0>>, <<"DC", 0>>, <<"DR", 0>>, <<"DML", 0>>, <<"DMC", 0>>, <<"DMR", 0>>, <<"ML", 0>>, <<"MC", 30>>, <<"MR", 30>>, <<"OML", 100>>, <<"OMC", 100>>, <<"OMR", 100>>, <<"FC", 100>>>>
     @@ "MC" :> <<<<"DL", 0>>, <<"DC", 0>>, <<"DR", 0>>, <<"DML", 0>>, <<"DMC", 0>>, <<"DMR", 0>>, <<"ML", 50>>, <<"MC", 0>>, <<"MR", 50>>, <<"OML", 100>>, <<"OMC", 50>>, <<"OMR", 100>>, <<"FC", 100>>>>
     @@ "MR" :> <<<<"DL", 0>>, <<"DC", 0>>, <<"DR", 0>>, <<"DML", 0>>, <<"DMC", 0>>, <<"DMR", 0>>, <<"ML", 30>>, <<"MC", 30>>, <<"MR", 0>>, <<"OML", 100>>, <<"OMC", 100>>, <<"OMR", 100>>, <<"FC", 100>>>>
     @@ "OML" :> <<<<"DL", 0>>, <<"DC", 0>>, <<"DR", 0>>, <<"DML", 0>>, <<"DMC", 0>>, <<"DMR", 0>>, <<"ML", 30>>, <<"MC", 30>>, <<"MR", 30>>, <<"OML", 100>>, <<"OMC", 100>>, <<"OMR", 100>>, <<"FC", 100>>>>
     @@ "OMC" :> <<<<"DL", 0>>, <<"DC", 0>>, <<"DR", 0>>, <<"DML", 0>>, <<"DMC", 0>>, <<"DMR", 0>>, <<"ML", 30>>, <<"MC", 30>>, <<"MR", 30>>, <<"OML", 100>>, <<"OMC", 100>>, <<"OMR", 100>>, <<"FC", 100>>>>
     @@ "OMR" :> <<<<"DL", 0>>, <<"DC", 0>>, <<"DR", 0>>, <<"DML", 0>>, <<"DMC", 0>>, <<"DMR", 0>>, <<"ML", 30>>, <<"MC", 30>>, <<"MR", 30>>, <<"OML", 100>>, <<"OMC", 100>>, <<"OMR", 100>>, <<"FC", 100>>>>
     @@ "FC" :> <<<<"DL", 0>>, <<"DC", 0>>, <<"DR", 0>>, <<"DML", 0>>, <<"DMC", 0>>, <<"DMR", 0>>, <<"ML", 30>>, <<"MC", 30>>, <<"MR", 30>>, <<"OML", 100>>, <<"OMC", 100>>, <<"OMR", 100>>, <<"FC", 100>>>>)

\* matrices.py
BASE_FINISH_DEFEND_MATRIX ==
    ("DL" :> <<<<"DL", 0>>, <<"DC", 1>>, <<"DR", 50>>, <<"DML", 0>>, <<"DMC", 30>>, <<"DMR", 50>>, <<"ML", 0>>, <<"MC", 50>>, <<"MR", 100>>, <<"OML", 0>>, <<"OMC", 0>>, <<"OMR", 100>>, <<"FC", 50>>>>
     @@ "DC" :> <<<<"DL", 0>>, <<"DC", 1>>, <<"DR", 0>>, <<"DML", 0>>, <<"DMC", 0>>, <<"DMR", 0>>, <<"ML", 30>>, <<"MC", 50>>, <<"MR", 0>>, <<"OML", 0>>, <<"OMC", 0>>, <<"OMR", 0>>, <<"FC", 100>>>>
     @@ "DR" :> <<<<"DL", 50>>, <<"DC", 1>>, <<"DR", 0>>, <<"DML", 0>>, <<"DMC", 0>>, <<"DMR", 0>>, <<"ML", 100>>, <<"MC", 100>>, <<"MR", 0>>, <<"OML", 50>>, <<"OMC", 100>>, <<"OMR", 50>>, <<"FC", 100>>>>
     @@ "DML" :> <<<<"DL", 0>>, <<"DC", 1>>, <<"DR", 0>>, <<"DML", 0>>, <<"DMC", 0>>, <<"DMR", 0>>, <<"ML", 0>>, <<"MC", 50>>, <<"MR", 0>>, <<"OML", 0>>, <<"OMC", 0>>, <<"OMR", 0>>, <<"FC", 0>>>>
     @@ "DMC" :> <<<<"DL", 0>>, <<"DC", 1>>, <<"DR", 0>>, <<"DML", 100>>, <<"DMC", 50>>, <<"DMR", 0>>, <<"ML", 0>>, <<"MC", 50>>, <<"MR", 0>>, <<"OML", 100>>, <<"OMC", 0>>, <<"OMR", 0>>, <<"FC", 0>>>>
     @@ "DMR" :> <<<<"DL", 0>>, <<"DC", 1>>, <<"DR", 0>>, <<"DML", 0>>, <<"DMC", 50>>, <<"DMR", 0>>, <<"ML", 0>>, <<"MC", 0>>, <<"MR", 0>>, <<"OML", 0>>, <<"OMC", 0>>, <<"OMR", 0>>, <<"FC", 0>>>>
     @@ "ML" :> <<<<"DL", 0>>, <<"DC", 1>>, <<"DR", 0>>, <<"DML", 0>>, <<"DMC", 0>>, <<"DMR", 0>>, <<"ML", 100>>, <<"MC", 50>>, <<"MR", 100>>, <<"OML", 0>>, <<"OMC", 0>>, <<"OMR", 0>>, <<"FC", 0>>>>
     @@ "MC" :> <<<<"DL", 0>>, <<"DC", 1>>, <<"DR", 0>>, <<"DML", 10>>, <<"DMC", 50>>, <<"DMR", 10>>, <<"ML", 10>>, <<"MC", 50>>, <<"MR", 10>>, <<"OML", 10>>, <<"OMC", 10>>, <<"OMR", 10>>, <<"FC", 0>>>>
     @@ "MR" :> <<<<"DL", 100>>, <<"DC", 50>>, <<"DR", 0>>, <<"DML", 0>>, <<"DMC", 0>>, <<"DMR", 0>>, <<"ML", 0>>, <<"MC", 0>>, <<"MR", 0>>, <<"OML", 0>>, <<"OMC", 0>>, <<"OMR", 0>>, <<"FC", 0>>>>
     @@ "OML" :> <<<<"DL", 0>>, <<"DC", 1>>, <<"DR", 0>>, <<"DML", 0>>, <<"DMC", 0>>, <<"DMR", 0>>, <<"ML", 0>>, <<"MC", 0>>, <<"MR", 0>>, <<"OML", 0>>, <<"OMC", 0>>, <<"OMR", 0>>, <<"FC", 0>>>>
     @@ "OMC" :> <<<<"DL", 50>>, <<"DC", 50>>, <<"DR", 0>>, <<"DML", 100>>, <<"DMC", 50>>, <<"DMR", 0>>, <<"ML", 0>>, <<"MC", 0>>, <<"MR", 0>>, <<"OML", 0>>, <<"OMC", 0>>, <<"OMR", 30>>, <<"FC", 0>>>>
     @@ "OMR" :> <<<<"DL", 100>>, <<"DC", 1>>, <<"DR", 0>>, <<"DML", 0>>, <<"DMC", 0>>, <<"DMR", 0>>, <<"ML", 0>>, <<"MC", 0>>, <<"MR", 0>>, <<"OML", 0>>, <<"OMC", 0>>, <<"OMR", 0>>, <<"FC", 0>>>>
     @@ "FC" :> <<<<"DL", 50>>, <<"DC", 100>>, <<"DR", 50>>, <<"DML", 10>>, <<"DMC", 0>>, <<"DMR", 10>>, <<"ML", 0>>, <<"MC", 0>>, <<"MR", 0>>, <<"OML", 10>>, <<"OMC", 0>>, <<"OMR", 0>>, <<"FC", 0>>>>)

\* matrices.py: chance type -> ordered (finish type, weight) row
CHANCE_TO_FINISH_TYPE_MATRIX ==
    ("Crossing" :> <<<<"FirstTime", 20>>, <<"Controlled", 20>>, <<"Header", 55>>, <<"Chip", 0>>, <<"Finesse", 0>>, <<"Power", 5>>>>
     @@ "Long" :> <<<<"FirstTime", 20>>, <<"Controlled", 20>>, <<"Header", 35>>, <<"Chip", 5>>, <<"Finesse", 5>>, <<"Power", 15>>>>
     @@ "Short" :> <<<<"FirstTime", 25>>, <<"Controlled", 30>>, <<"Header", 2>>, <<"Chip", 3>>, <<"Finesse", 10>>, <<"Power", 30>>>>
     @@ "Through" :> <<<<"FirstTime", 25>>, <<"Controlled", 25>>, <<"Header", 10>>, <<"Chip", 15>>, <<"Finesse", 15>>, <<"Power", 10>>>>
     @@ "Solo" :> <<<<"FirstTime", 10>>, <<"Controlled", 25>>, <<"Header", 0>>, <<"Chip", 10>>, <<"Finesse", 25>>, <<"Power", 30>>>>)

\* evaluation.py: event type -> ordered (skill, weight in tenths) pairs, as the dict literal evaluates (a repeated key keeps its first place and its last value)
EVENT_SKILL_WEIGHTS ==
    ("Short" :> <<<<"Passing", 4>>, <<"Vision", 3>>, <<"Ball Control", 1>>, <<"Composure", 1>>, <<"Positioning", 1>>, <<"Marking", 4>>, <<"Tackling", 3>>, <<"Work Rate", 1>>, <<"Strength", 1>>>>
     @@ "Long" :> <<<<"Crossing", 4>>, <<"Passing", 3>>, <<"Ball Control", 1>>, <<"Composure", 1>>, <<"Vision", 1>>, <<"Work Rate", 4>>, <<"Tackling", 3>>, <<"Marking", 1>>, <<"Positioning", 1>>, <<"Strength", 1>>>>
     @@ "Crossing" :> <<<<"Crossing", 4>>, <<"Acceleration", 1>>, <<"Agility", 1>>, <<"Vision", 1>>, <<"Ball Control", 1>>, <<"Marking", 4>>, <<"Positioning", 3>>, <<"Tackling", 1>>>>
     @@ "Through" :> <<<<"Vision", 4>>, <<"Passing", 3>>, <<"Ball Control", 1>>, <<"Crossing", 1>>, <<"Composure", 1>>, <<"Tackling", 4>>, <<"Acceleration", 3>>, <<"Positioning", 1>>, <<"Marking", 1>>, <<"Strength", 1>>>>
     @@ "Solo" :> <<<<"Ball Control", 4>>, <<"Agility", 3>>, <<"Vision", 1>>, <<"Composure", 1>>, <<"Acceleration", 1>>, <<"Tackling", 4>>, <<"Positioning", 1>>, <<"Marking", 1>>, <<"Strength", 1>>>>
     @@ "Short_finisher" :> <<<<"Ball Control", 4>>, <<"Positioning", 1>>, <<"Work Rate", 1>>, <<"Agility", 1>>, <<"Strength", 1>>, <<"Tackling", 4>>, <<"Marking", 3>>>>
     @@ "Long_finisher" :> <<<<"Jump Reach", 3>>, <<"Strength", 1>>, <<"Agility", 1>>, <<"Positioning", 1>>, <<"Acceleration", 1>>, <<"Heading", 4>>>>
     @@ "Crossing_finisher" :> <<<<"Jump Reach", 3>>, <<"Strength", 1>>, <<"Agility", 1>>, <<"Positioning", 1>>, <<"Work Rate", 1>>, <<"Heading", 4>>>>
     @@ "Through_finisher" :> <<<<"Vision", 4>>, <<"Acceleration", 3>>, <<"Agility", 1>>, <<"Positioning", 4>>, <<"Composure", 1>>, <<"Strength", 1>>, <<"Tackling", 1>>, <<"Marking", 1>>>>
     @@ "Solo_finisher" :> <<<<"Ball Control", 4>>, <<"Agility", 3>>, <<"Vision", 1>>, <<"Composure", 1>>, <<"Acceleration", 1>>, <<"Tackling", 4>>, <<"Positioning", 1>>, <<"Marking", 1>>, <<"Strength", 1>>>>
     @@ "FirstTime" :> <<<<"Ball Control", 4>>, <<"Finishing", 4>>, <<"Composure", 2>>>>
     @@ "Controlled" :> <<<<"Finishing", 5>>, <<"Composure", 3>>, <<"Ball Control", 2>>>>
     @@ "Header" :> <<<<"Heading", 5>>, <<"Jump Reach", 3>>, <<"Strength", 2>>>>
     @@ "Chip" :> <<<<"Composure", 4>>, <<"Ball Control", 3>>, <<"Finishing", 3>>>>
     @@ "Finesse" :> <<<<"Vision", 3>>, <<"Finishing", 3>>, <<"Composure", 1>>, <<"Agility", 3>>>>
     @@ "Power" :> <<<<"Finishing", 4>>, <<"Strength", 4>>, <<"Ball Control", 2>>>>
     @@ "Header_duel" :> <<<<"Heading", 4>>, <<"Jump Reach", 3>>, <<"Positioning", 2>>, <<"Strength", 1>>>>
     @@ "Corner_finisher" :> <<<<"Heading", 4>>, <<"Jump Reach", 3>>, <<"Positioning", 2>>, <<"Strength", 1>>>>
     @@ "Corner_from_save" :> <<<<"Handling", 5>>, <<"Reflexes", 3>>, <<"Positioning", 2>>, <<"Finishing", 5>>, <<"Ball Control", 3>>, <<"Composure", 2>>>>
     @@ "Corner_from_finisher_fail" :> <<<<"Tackling", 4>>, <<"Positioning", 1>>, <<"Strength", 2>>, <<"Agility", 3>>, <<"Ball Control", 4>>, <<"Composure", 2>>>>
     @@ "Corner_from_creation_fail" :> <<<<"Tackling", 4>>, <<"Marking", 3>>, <<"Positioning", 2>>, <<"Strength", 1>>, <<"Ball Control", 4>>, <<"Passing", 3>>, <<"Composure", 2>>, <<"Vision", 1>>>>
     @@ "FirstTime_save" :> <<<<"Reflexes", 6>>, <<"Positioning", 3>>, <<"Handling", 1>>>>
     @@ "Controlled_save" :> <<<<"Handling", 5>>, <<"Positioning", 3>>, <<"Reflexes", 2>>>>
     @@ "Header_save" :> <<<<"Aerial Reach", 6>>, <<"Positioning", 3>>, <<"Agility", 3>>, <<"Handling", 1>>>>
     @@ "Chip_save" :> <<<<"One-on-One", 5>>, <<"Positioning", 3>>, <<"Reflexes", 2>>>>
     @@ "Finesse_save" :> <<<<"Handling", 5>>, <<"Agility", 3>>, <<"Positioning", 3>>>>
     @@ "Power_save" :> <<<<"Handling", 3>>, <<"Reflexes", 3>>, <<"Strength", 3>>, <<"Positioning", 1>>>>
     @@ "Penalty_save" :> <<<<"One-on-One", 5>>, <<"Reflexes", 3>>, <<"Positioning", 2>>>>
     @@ "Freekick_save" :> <<<<"Positioning", 4>>, <<"Reflexes", 3>>, <<"Command of Area", 2>>, <<"Handling", 1>>>>
     @@ "Long_intercept" :> <<<<"Aerial Reach", 3>>, <<"Command of Area", 3>>, <<"Strength", 2>>, <<"Positioning", 2>>>>
     @@ "Crossing_intercept" :> <<<<"Aerial Reach", 4>>, <<"Command of Area", 4>>, <<"Strength", 2>>, <<"Positioning", 2>>>>
     @@ "Through_intercept" :> <<<<"One-on-One", 6>>, <<"Positioning", 3>>, <<"Agility", 1>>>>
     @@ "Corner" :> <<<<"Crossing", 5>>, <<"Vision", 3>>, <<"Ball Control", 2>>, <<"Aerial Reach", 5>>, <<"Command of Area", 3>>, <<"Positioning", 2>>>>
     @@ "Freekick" :> <<<<"Finishing", 3>>, <<"Vision", 2>>, <<"Composure", 2>>, <<"Ball Control", 3>>, <<"Positioning", 3>>, <<"Reflexes", 3>>, <<"Agility", 3>>, <<"Handling", 1>>>>
     @@ "Penalty" :> <<<<"Composure", 5>>, <<"Finishing", 3>>, <<"Ball Control", 2>>, <<"Reflexes", 3>>, <<"Agility", 4>>, <<"One-on-One", 3>>>>
     @@ "Counter" :> <<<<"Vision", 4>>, <<"Passing", 3>>, <<"Composure", 2>>, <<"Acceleration", 1>>, <<"Positioning", 5>>, <<"Marking", 3>>, <<"Tackling", 2>>>>
     @@ "Gk_Pen" :> <<<<"Finishing", 5>>, <<"Composure", 4>>, <<"Vision", 1>>, <<"Reflexes", 5>>, <<"Positioning", 3>>, <<"One-on-One", 2>>>>
     @@ "Gk_Free" :> <<<<"Finishing", 4>>, <<"Vision", 3>>, <<"Composure", 2>>, <<"Ball Control", 1>>, <<"Positioning", 4>>, <<"Reflexes", 3>>, <<"Command of Area", 2>>, <<"Handling", 1>>>>
     @@ "Gk_Corner" :> <<<<"Crossing", 5>>, <<"Vision", 3>>, <<"Composure", 2>>, <<"Aerial Reach", 5>>, <<"Command of Area", 3>>, <<"Positioning", 2>>>>)

\* evaluation.py: event type -> coefficients (in tenths) of the initiator attributes, of the defender attributes, and the flat constant subtracted
EVENT_X_FORMULAS ==
    ("Short" :> [init |-> <<<<"Ball Control", 1>>, <<"Composure", 1>>, <<"Passing", 4>>, <<"Positioning", 1>>, <<"Vision", 3>>>>, def |-> <<<<"Marking", 4>>, <<"Positioning", 1>>, <<"Strength", 1>>, <<"Tackling", 3>>, <<"Work Rate", 1>>>>, const |-> 0]
     @@ "Long" :> [init |-> <<<<"Ball Control", 1>>, <<"Composure", 1>>, <<"Crossing", 4>>, <<"Passing", 3>>, <<"Vision", 1>>>>, def |-> <<<<"Marking", 1>>, <<"Positioning", 1>>, <<"Strength", 1>>, <<"Tackling", 3>>, <<"Work Rate", 4>>>>, const |-> 0]
     @@ "Crossing" :> [init |-> <<<<"Acceleration", 3>>, <<"Agility", 1>>, <<"Ball Control", 1>>, <<"Crossing", 4>>, <<"Vision", 1>>>>, def |-> <<<<"Acceleration", 1>>, <<"Agility", 1>>, <<"Marking", 4>>, <<"Positioning", 3>>, <<"Tackling", 1>>>>, const |-> 0]
     @@ "Through" :> [init |-> <<<<"Ball Control", 1>>, <<"Composure", 1>>, <<"Crossing", 1>>, <<"Passing", 3>>, <<"Vision", 4>>>>, def |-> <<<<"Acceleration", 3>>, <<"Marking", 1>>, <<"Positioning", 1>>, <<"Strength", 1>>, <<"Tackling", 4>>>>, const |-> 0]
     @@ "Solo" :> [init |-> <<<<"Acceleration", 1>>, <<"Agility", 3>>, <<"Ball Control", 4>>, <<"Composure", 1>>, <<"Vision", 1>>>>, def |-> <<<<"Agility", 3>>, <<"Marking", 1>>, <<"Positioning", 1>>, <<"Strength", 1>>, <<"Tackling", 4>>>>, const |-> 0]
     @@ "Short_finisher" :> [init |-> <<<<"Agility", 1>>, <<"Ball Control", 4>>, <<"Positioning", 3>>, <<"Strength", 1>>, <<"Work Rate", 1>>>>, def |-> <<<<"Agility", 1>>, <<"Marking", 3>>, <<"Positioning", 1>>, <<"Tackling", 4>>, <<"Work Rate", 1>>>>, const |-> 0]
     @@ "Long_finisher" :> [init |-> <<<<"Acceleration", 1>>, <<"Agility", 1>>, <<"Jump Reach", 4>>, <<"Positioning", 1>>, <<"Strength", 3>>>>, def |-> <<<<"Agility", 1>>, <<"Heading", 4>>, <<"Jump Reach", 3>>, <<"Positioning", 1>>, <<"Strength", 1>>>>, const |-> 0]
     @@ "Crossing_finisher" :> [init |-> <<<<"Agility", 1>>, <<"Jump Reach", 4>>, <<"Positioning", 1>>, <<"Strength", 3>>, <<"Work Rate", 1>>>>, def |-> <<<<"Agility", 1>>, <<"Heading", 4>>, <<"Jump Reach", 3>>, <<"Positioning", 1>>, <<"Strength", 1>>>>, const |-> 0]
     @@ "Through_finisher" :> [init |-> <<<<"Acceleration", 3>>, <<"Agility", 1>>, <<"Composure", 1>>, <<"Positioning", 1>>, <<"Vision", 4>>>>, def |-> <<<<"Acceleration", 3>>, <<"Marking", 1>>, <<"Positioning", 4>>, <<"Strength", 1>>, <<"Tackling", 1>>>>, const |-> 0]
     @@ "Solo_finisher" :> [init |-> <<<<"Acceleration", 1>>, <<"Agility", 3>>, <<"Ball Control", 4>>, <<"Composure", 1>>, <<"Vision", 1>>>>, def |-> <<<<"Agility", 3>>, <<"Marking", 1>>, <<"Positioning", 1>>, <<"Strength", 1>>, <<"Tackling", 4>>>>, const |-> 0]
     @@ "FirstTime" :> [init |-> <<<<"Ball Control", 4>>, <<"Composure", 2>>, <<"Finishing", 4>>>>, def |-> <<>>, const |-> 10]
     @@ "Controlled" :> [init |-> <<<<"Ball Control", 2>>, <<"Composure", 3>>, <<"Finishing", 5>>>>, def |-> <<>>, const |-> 10]
     @@ "Header" :> [init |-> <<<<"Heading", 5>>, <<"Jump Reach", 3>>, <<"Strength", 2>>>>, def |-> <<>>, const |-> 10]
     @@ "Chip" :> [init |-> <<<<"Ball Control", 3>>, <<"Composure", 4>>, <<"Finishing", 3>>>>, def |-> <<>>, const |-> 10]
     @@ "Finesse" :> [init |-> <<<<"Agility", 3>>, <<"Composure", 1>>, <<"Finishing", 3>>, <<"Vision", 3>>>>, def |-> <<>>, const |-> 10]
     @@ "Power" :> [init |-> <<<<"Ball Control", 2>>, <<"Finishing", 4>>, <<"Strength", 4>>>>, def |-> <<>>, const |-> 10]
     @@ "FirstTime_save" :> [init |-> <<<<"Handling", 1>>, <<"Positioning", 3>>, <<"Reflexes", 6>>>>, def |-> <<>>, const |-> 10]
     @@ "Controlled_save" :> [init |-> <<<<"Handling", 5>>, <<"Positioning", 3>>, <<"Reflexes", 2>>>>, def |-> <<>>, const |-> 10]
     @@ "Header_save" :> [init |-> <<<<"Aerial Reach", 6>>, <<"Agility", 3>>, <<"Handling", 1>>, <<"Positioning", 3>>>>, def |-> <<>>, const |-> 10]
     @@ "Chip_save" :> [init |-> <<<<"One-on-One", 5>>, <<"Positioning", 3>>, <<"Reflexes", 2>>>>, def |-> <<>>, const |-> 10]
     @@ "Finesse_save" :> [init |-> <<<<"Agility", 3>>, <<"Handling", 7>>, <<"Positioning", 3>>>>, def |-> <<>>, const |-> 10]
     @@ "Power_save" :> [init |-> <<<<"Handling", 3>>, <<"Positioning", 1>>, <<"Reflexes", 3>>, <<"Strength", 3>>>>, def |-> <<>>, const |-> 10]
     @@ "Penalty" :> [init |-> <<<<"Ball Control", 2>>, <<"Composure", 5>>, <<"Finishing", 3>>>>, def |-> <<>>, const |-> 10]
     @@ "Freekick" :> [init |-> <<<<"Ball Control", 3>>, <<"Composure", 2>>, <<"Finishing", 3>>, <<"Vision", 2>>>>, def |-> <<>>, const |-> 10]
     @@ "Penalty_save" :> [init |-> <<<<"Agility", 3>>, <<"Composure", 3>>, <<"One-on-One", 4>>>>, def |-> <<>>, const |-> 10]
     @@ "Freekick_save" :> [init |-> <<<<"Agility", 4>>, <<"Handling", 3>>, <<"Positioning", 2>>>>, def |-> <<>>, const |-> 10]
     @@ "Long_intercept" :> [init |-> <<<<"Aerial Reach", 3>>, <<"Command of Area", 3>>, <<"Positioning", 2>>, <<"Strength", 2>>>>, def |-> <<>>, const |-> 10]
     @@ "Crossing_intercept" :> [init |-> <<<<"Aerial Reach", 4>>, <<"Command of Area", 4>>, <<"Positioning", 2>>, <<"Strength", 2>>>>, def |-> <<>>, const |-> 10]
     @@ "Through_intercept" :> [init |-> <<<<"Agility", 1>>, <<"One-on-One", 6>>, <<"Positioning", 3>>>>, def |-> <<>>, const |-> 10]
     @@ "Corner" :> [init |-> <<<<"Ball Control", 2>>, <<"Crossing", 5>>, <<"Vision", 3>>>>, def |-> <<<<"Aerial Reach", 5>>, <<"Command of Area", 3>>, <<"Positioning", 2>>>>, const |-> 0]
     @@ "Counter" :> [init |-> <<<<"Acceleration", 1>>, <<"Composure", 2>>, <<"Passing", 3>>, <<"Vision", 4>>>>, def |-> <<<<"Marking", 3>>, <<"Positioning", 5>>, <<"Tackling", 2>>>>, const |-> 0]
     @@ "Header_duel" :> [init |-> <<<<"Heading", 4>>, <<"Jump Reach", 3>>, <<"Positioning", 2>>, <<"Strength", 1>>>>, def |-> <<<<"Heading", 4>>, <<"Jump Reach", 3>>, <<"Positioning", 2>>, <<"Strength", 1>>>>, const |-> 0]
     @@ "Corner_finisher" :> [init |-> <<<<"Heading", 4>>, <<"Jump Reach", 3>>, <<"Positioning", 2>>, <<"Strength", 1>>>>, def |-> <<<<"Heading", 4>>, <<"Jump Reach", 3>>, <<"Positioning", 2>>, <<"Strength", 1>>>>, const |-> 0]
     @@ "Gk_Corner" :> [init |-> <<<<"Composure", 2>>, <<"Crossing", 5>>, <<"Vision", 3>>>>, def |-> <<<<"Aerial Reach", 5>>, <<"Command of Area", 3>>, <<"Positioning", 2>>>>, const |-> 0]
     @@ "Corner_from_save" :> [init |-> <<<<"Composure", 3>>, <<"Handling", 5>>, <<"Positioning", 2>>>>, def |-> <<>>, const |-> 10]
     @@ "Corner_from_finisher_fail" :> [init |-> <<<<"Agility", 3>>, <<"Ball Control", 4>>, <<"Positioning", 3>>>>, def |-> <<>>, const |-> 10]
     @@ "Corner_from_creation_fail" :> [init |-> <<<<"Agility", 3>>, <<"Ball Control", 4>>, <<"Positioning", 3>>>>, def |-> <<>>, const |-> 10])

\* evaluation.py: sigmoid parameters in hundredths
DEFAULT_PARAMS ==
    [a |-> 70, c |-> 20, L |-> 60]

\* evaluation.py: per-event sigmoid parameters in hundredths
EVENT_SIGMOID_PARAMS ==
    ("Short" :> DEFAULT_PARAMS
     @@ "Crossing" :> DEFAULT_PARAMS
     @@ "Solo" :> DEFAULT_PARAMS
     @@ "Through" :> DEFAULT_PARAMS
     @@ "Long" :> DEFAULT_PARAMS
     @@ "Short_finisher" :> DEFAULT_PARAMS
     @@ "Crossing_finisher" :> DEFAULT_PARAMS
     @@ "Solo_finisher" :> DEFAULT_PARAMS
     @@ "Through_finisher" :> DEFAULT_PARAMS
     @@ "Long_finisher" :> DEFAULT_PARAMS
     @@ "FirstTime" :> [a |-> 30, c |-> 15, L |-> 25]
     @@ "Controlled" :> [a |-> 30, c |-> 25, L |-> 25]
     @@ "Header" :> [a |-> 30, c |-> 20, L |-> 25]
     @@ "Chip" :> [a |-> 30, c |-> 10, L |-> 25]
     @@ "Finesse" :> [a |-> 30, c |-> 10, L |-> 25]
     @@ "Power" :> [a |-> 30, c |-> 20, L |-> 25]
     @@ "Header_duel" :> DEFAULT_PARAMS
     @@ "Corner_finisher" :> DEFAULT_PARAMS
     @@ "Corner_from_save" :> [a |-> 15, c |-> 60, L |-> 30]
     @@ "Corner_from_finisher_fail" :> [a |-> 15, c |-> 75, L |-> 20]
     @@ "Corner_from_creation_fail" :> [a |-> 15, c |-> 75, L |-> 20]
     @@ "FirstTime_save" :> [a |-> 30, c |-> 28, L |-> 50]
     @@ "Controlled_save" :> [a |-> 30, c |-> 30, L |-> 50]
     @@ "Header_save" :> [a |-> 30, c |-> 23, L |-> 50]
     @@ "Chip_save" :> [a |-> 30, c |-> 18, L |-> 50]
     @@ "Finesse_save" :> [a |-> 30, c |-> 18, L |-> 50]
     @@ "Power_save" :> [a |-> 30, c |-> 40, L |-> 45]
     @@ "Penalty_save" :> [a |-> 30, c |-> 0, L |-> 30]
     @@ "Freekick_save" :> [a |-> 30, c |-> 25, L |-> 45]
     @@ "Long_intercept" :> DEFAULT_PARAMS
     @@ "Crossing_intercept" :> DEFAULT_PARAMS
     @@ "Through_intercept" :> DEFAULT_PARAMS
     @@ "Corner" :> DEFAULT_PARAMS
     @@ "Penalty" :> [a |-> 40, c |-> 70, L |-> 25]
     @@ "Freekick" :> [a |-> 30, c |-> 28, L |-> 50])

\* evaluation.py sigmoid_eval: 1/(1+exp(-z)) in units of 1/10000, tabulated for z = -8.0, -7.9, .., 8.0
LogisticTable ==
    <<3, 4, 4, 5, 5, 6, 6, 7, 7, 8, 9, 10,
      11, 12, 14, 15, 17, 18, 20, 22, 25, 27, 30, 33,
      37, 41, 45, 50, 55, 61, 67, 74, 82, 90, 100, 110,
      121, 134, 148, 163, 180, 198, 219, 241, 266, 293, 323, 356,
      392, 431, 474, 522, 573, 630, 691, 759, 832, 911, 998, 1091,
      1192, 1301, 1419, 1545, 1680, 1824, 1978, 2142, 2315, 2497, 2689, 2891,
      3100, 3318, 3543, 3775, 4013, 4256, 4502, 4750, 5000, 5250, 5498, 5744,
      5987, 6225, 6457, 6682, 6900, 7109, 7311, 7503, 7685, 7858, 8022, 8176,
      8320, 8455, 8581, 8699, 8808, 8909, 9002, 9089, 9168, 9241, 9309, 9370,
      9427, 9478, 9526, 9569, 9608, 9644, 9677, 9707, 9734, 9759, 9781, 9802,
      9820, 9837, 9852, 9866, 9879, 9890, 9900, 9910, 9918, 9926, 9933, 9939,
      9945, 9950, 9955, 9959, 9963, 9967, 9970, 9973, 9975, 9978, 9980, 9982,
      9983, 9985, 9986, 9988, 9989, 9990, 9991, 9992, 9993, 9993, 9994, 9994,
      9995, 9995, 9996, 9996, 9997>>


(***************************************************************************)
(* Sequence helpers                                                        *)
(***************************************************************************)
Range(s) == {s[i] : i \in DOMAIN s}

RECURSIVE SumWeights(_)
SumWeights(items) ==
    IF items = <<>> THEN 0 ELSE items[1][2] + SumWeights(Tail(items))

Keys(items) == [i \in DOMAIN items |-> items[i][1]]

HasKey(items, k) == \E i \in DOMAIN items : items[i][1] = k

Lookup(items, k) == items[CHOOSE i \in DOMAIN items : items[i][1] = k][2]

(***************************************************************************)
(* The random source.  Module random is a seeded deterministic generator   *)
(* shared by every caller in the process; it is modelled by the minimal    *)
(* standard Lehmer generator (Schrage's form, which stays within 32 bits). *)
(***************************************************************************)
RngModulus == 2147483647

RngNext(x) ==
    LET t == 16807 * (x % 127773) - 2836 * (x \div 127773)
    IN  IF t > 0 THEN t ELSE t + RngModulus

\* random.seed(s): the generator state after seeding
RngSeed(s) == RngNext(RngNext(RngNext(s)))

\* the number in [0, 1) the generator yields in state x, in units of 1/10000
Unit(x) == x \div 214749

\* random.choice(seq) on a non-empty sequence
random_choice(seq, r) ==
    [val |-> seq[1 + (Unit(r) * Len(seq)) \div 10000], rng |-> RngNext(r)]

\* random.choice(list(a_set)): the iteration order of a set of strings is not
\* fixed by the program (it depends on the interpreter's string hashing), so
\* the element at the drawn index is any element of the set
random_choice_of_set(S, r) ==
    {[val |-> x, rng |-> RngNext(r)] : x \in S}

\* random.choices(items, weights, k=1)[0]: bisect of the cumulative weights
RECURSIVE Bisect(_, _, _, _)
Bisect(items, i, cum, x) ==
    IF i = Len(items) THEN items[i][1]
    ELSE IF (cum + items[i][2]) * 10000 > x THEN items[i][1]
    ELSE Bisect(items, i + 1, cum + items[i][2], x)

random_choices(items, r) ==
    Bisect(items, 1, 0, Unit(r) * SumWeights(items))

\* a choice that does not look at the weights
weighted_choice_unfiltered(items_with_probs, r) ==
    IF items_with_probs = <<>> THEN [val |-> None, rng |-> r]
    ELSE random_choice(Keys(items_with_probs), r)

\* matrices.py weighted_choice: the keys of positive weight, drawn by weight
weighted_choice(items_with_probs, r) ==
    LET filtered == SelectSeq(items_with_probs, LAMBDA kv : kv[2] > 0)
    IN  IF filtered = <<>>
        THEN [val |-> None, rng |-> r]
        ELSE [val |-> random_choices(filtered, r), rng |-> RngNext(r)]

(***************************************************************************)
(* models.py: Player and Team                                              *)
(***************************************************************************)
Player(name, matrix_position, attributes, is_goalkeeper) ==
    [name |-> name, matrix_position |-> matrix_position,
     attributes |-> attributes, is_goalkeeper |-> is_goalkeeper,
     minutes_played |-> 0]

NoPlayer == Player(None, None, <<>>, FALSE)

get_attr(p, attr_name) ==
    IF attr_name \in DOMAIN p.attributes THEN p.attributes[attr_name] ELSE 0

validate_attributes(p) ==
    LET required == IF p.is_goalkeeper THEN GOALKEEPER_ATTRS ELSE OUTFIELD_ATTRS
        missing == SelectSeq(required, LAMBDA a : a \notin DOMAIN p.attributes)
    IN  missing = <<>>

TeamSize == 11

\* a validation that only counts the players
validate_team_size_only(players) == Len(players) = TeamSize

\* Team._validate_team: TRUE when no ValueError is raised
validate_team(players) ==
    /\ Len(players) = TeamSize
    /\ Len(SelectSeq(players, LAMBDA p : p.is_goalkeeper)) = 1
    /\ \A i \in DOMAIN players : validate_attributes(players[i])

get_goalkeeper(team) ==
    SelectSeq(team.players, LAMBDA p : p.is_goalkeeper)[1]

get_players_by_position(team, pos) ==
    SelectSeq(team.players, LAMBDA p : p.matrix_position = pos)

\* select_player_from_pos: a draw is consumed only when a candidate exists
select_player_from_pos(team, pos, exclude, r) ==
    LET players == SelectSeq(get_players_by_position(team, pos), LAMBDA p : p # exclude)
    IN  IF players = <<>> THEN [val |-> NoPlayer, rng |-> r]
        ELSE random_choice(players, r)

\* the set of position codes present in a roster
PositionsOf(team) == {team.players[i].matrix_position : i \in DOMAIN team.players}

(***************************************************************************)
(* matrices.py: the matrix builder                                         *)
(***************************************************************************)
CountAt(team, pos) == Len(get_players_by_position(team, pos))

\* get_formation_count: position code -> number of players, for the codes of POSITIONS
get_formation_count(team) ==
    [i \in DOMAIN POSITIONS |-> <<POSITIONS[i], CountAt(team, POSITIONS[i])>>]

\* normalize_matrix: every value over the total (kept as numerators), all zero
\* when the total is zero
normalize_matrix(matrix) ==
    IF SumWeights(matrix) = 0
    THEN [i \in DOMAIN matrix |-> <<matrix[i][1], 0>>]
    ELSE matrix

\* get_team_match_creator_matrix: the normalised matrix it returns
get_team_match_creator_matrix(team, base_matrix) ==
    LET formation_count == get_formation_count(team)
        raw_matrix == [i \in DOMAIN POSITIONS |->
                         <<POSITIONS[i],
                           (IF HasKey(base_matrix, POSITIONS[i])
                            THEN Lookup(base_matrix, POSITIONS[i]) ELSE 0)
                           * Lookup(formation_count, POSITIONS[i])>>]
    IN  normalize_matrix(raw_matrix)

\* a row restricted to the columns present in a roster, each weight scaled,
\* then normalised (all zero when the total is zero)
WeightedRow(base_row, team, scale) ==
    LET present == SelectSeq(base_row, LAMBDA kv : kv[1] \in PositionsOf(team))
        weighted == [i \in DOMAIN present |->
                       <<present[i][1], present[i][2] * CountAt(team, present[i][1]) * scale>>]
    IN  normalize_matrix(weighted)

build_match_finisher_matrix_weighted(base_matrix, team) ==
    [creator \in DOMAIN base_matrix \cap PositionsOf(team) |->
        WeightedRow(base_matrix[creator], team, 1)]

build_match_defender_matrix_weighted(base_matrix, attacking_team, defending_team) ==
    [row \in DOMAIN base_matrix \cap PositionsOf(attacking_team) |->
        WeightedRow(base_matrix[row], defending_team, CountAt(attacking_team, row))]

build_solo_dribble_matrix(team) ==
    [pos \in {p \in Range(POSITIONS) : CountAt(team, p) > 0} |-> <<<<pos, 1>>>>]

\* dict.get(key, default)
GetOr(table, key, default) == IF key \in DOMAIN table THEN table[key] ELSE default

\* dict.get(key, {}) on a matrix
RowOf(matrix, key) == GetOr(matrix, key, <<>>)

(***************************************************************************)
(* evaluation.py: the evaluation engine                                    *)
(***************************************************************************)
RECURSIVE WeightedAttrs(_, _)
WeightedAttrs(coeffs, p) ==
    IF coeffs = <<>> THEN 0
    ELSE coeffs[1][2] * get_attr(p, coeffs[1][1]) + WeightedAttrs(Tail(coeffs), p)

\* the X formula of an event type, in thousandths
x_formula(f, initiator, defender) ==
    100 * (WeightedAttrs(f.init, initiator) - WeightedAttrs(f.def, defender))
    - 1000 * f.const

\* calculate_stamina_modifier, in thousandths
calculate_stamina_modifier(initiator, defender) ==
    get_attr(initiator, "Stamina") * initiator.minutes_played
    - get_attr(defender, "Stamina") * defender.minutes_played

\* the logistic 1/(1+exp(-z)) in units of 1/10000, z in thousandths: clamped to
\* [-8, 8] and interpolated linearly between the entries of LogisticTable
Logistic(z) ==
    LET Between(lo, hi, frac) == lo + ((hi - lo) * frac + 50) \div 100
        At(table, zc) == Between(table[zc \div 100 + 81],
                                 table[IF zc % 100 = 0 THEN zc \div 100 + 81
                                       ELSE zc \div 100 + 82],
                                 zc % 100)
    IN  At(LogisticTable, IF z > 8000 THEN 8000 ELSE IF z < -8000 THEN -8000 ELSE z)

\* sigmoid_eval: c + L / (1 + exp(-a * X)), in units of 1/10000; X in thousandths,
\* a, c, L in hundredths
sigmoid_eval(X, a, c, L) ==
    c * 100 + (L * Logistic((a * X) \div 100) + 50) \div 100

\* _get_skills_used_for_event
get_skills_used_for_event(event_type) ==
    LET Names(weights) == IF weights # <<>> THEN Keys(weights)
                          ELSE <<"Composure", "Positioning">>
    IN  Names(RowOf(EVENT_SKILL_WEIGHTS, event_type))

\* the default critical multipliers of eval_event, in tenths
crit_multiplier_1 == 3
crit_multiplier_2 == 7

\* an evaluation whose crit thresholds are measured from 0, not from prob
eval_event_crit_from_zero(event_type, initiator, defender, x_bonus, r) ==
    LET Rolled(X, prob, roll) ==
            [error |-> FALSE,
             success |-> roll > prob,
             prob |-> prob,
             X |-> X,
             crit_level |->
                 IF roll > (crit_multiplier_2 * (10000 - prob)) \div 10 THEN "crit_2"
                 ELSE IF roll > (crit_multiplier_1 * (10000 - prob)) \div 10
                      THEN "crit_1" ELSE "none",
             skills_used |-> get_skills_used_for_event(event_type),
             rng |-> RngNext(r)]
        Evaluated(params, X) ==
            Rolled(X, 10000 - sigmoid_eval(X, params.a, params.c, params.L), Unit(r))
        WithFormulas(formulas) ==
            IF event_type \notin DOMAIN formulas
            THEN [error |-> TRUE, success |-> FALSE, prob |-> 0, X |-> 0,
                  crit_level |-> "none", skills_used |-> <<>>, rng |-> r]
            ELSE Evaluated(GetOr(EVENT_SIGMOID_PARAMS, event_type, DEFAULT_PARAMS),
                           x_formula(formulas[event_type], initiator, defender) + x_bonus
                           + calculate_stamina_modifier(initiator, defender))
    IN  WithFormulas(EVENT_X_FORMULAS)

\* an eval_event that rolls before it looks its formula up
eval_event_roll_first(event_type, initiator, defender, x_bonus, r) ==
    LET Rolled(X, prob, roll) ==
            [error |-> FALSE,
             success |-> roll > prob,
             prob |-> prob,
             X |-> X,
             crit_level |->
                 IF roll > prob + (crit_multiplier_2 * (10000 - prob)) \div 10 THEN "crit_2"
                 ELSE IF roll > prob + (crit_multiplier_1 * (10000 - prob)) \div 10
                      THEN "crit_1" ELSE "none",
             skills_used |-> get_skills_used_for_event(event_type),
             rng |-> RngNext(r)]
        Evaluated(params, X) ==
            Rolled(X, 10000 - sigmoid_eval(X, params.a, params.c, params.L), Unit(r))
        WithFormulas(formulas) ==
            IF event_type \notin DOMAIN formulas
            THEN [error |-> TRUE, success |-> FALSE, prob |-> 0, X |-> 0,
                  crit_level |-> "none", skills_used |-> <<>>, rng |-> RngNext(r)]
            ELSE Evaluated(GetOr(EVENT_SIGMOID_PARAMS, event_type, DEFAULT_PARAMS),
                           x_formula(formulas[event_type], initiator, defender) + x_bonus
                           + calculate_stamina_modifier(initiator, defender))
    IN  WithFormulas(EVENT_X_FORMULAS)

\* eval_event with the default multipliers; x_bonus in thousandths.  error is
\* TRUE when the ValueError for an unknown event type is raised.
eval_event(event_type, initiator, defender, x_bonus, r) ==
    LET Rolled(X, prob, roll) ==
            [error |-> FALSE,
             success |-> roll > prob,
             prob |-> prob,
             X |-> X,
             crit_level |->
                 IF roll > prob + (crit_multiplier_2 * (10000 - prob)) \div 10 THEN "crit_2"
                 ELSE IF roll > prob + (crit_multiplier_1 * (10000 - prob)) \div 10
                      THEN "crit_1" ELSE "none",
             skills_used |-> get_skills_used_for_event(event_type),
             rng |-> RngNext(r)]
        Evaluated(params, X) ==
            Rolled(X, 10000 - sigmoid_eval(X, params.a, params.c, params.L), Unit(r))
        WithFormulas(formulas) ==
            IF event_type \notin DOMAIN formulas
            THEN [error |-> TRUE, success |-> FALSE, prob |-> 0, X |-> 0,
                  crit_level |-> "none", skills_used |-> <<>>, rng |-> r]
            ELSE Evaluated(GetOr(EVENT_SIGMOID_PARAMS, event_type, DEFAULT_PARAMS),
                           x_formula(formulas[event_type], initiator, defender) + x_bonus
                           + calculate_stamina_modifier(initiator, defender))
    IN  WithFormulas(EVENT_X_FORMULAS)

\* f"{prob:.3f}" and f"{prob:.2f}": the probability rounded to 3 and to 2
\* decimals, a tie going to the even digit
RoundHalfEven(x, unit) ==
    LET q == x \div unit
        rem == x % unit
    IN  IF 2 * rem > unit \/ (2 * rem = unit /\ q % 2 = 1) THEN q + 1 ELSE q

Fmt3(prob) == RoundHalfEven(prob, 10)
Fmt2(prob) == RoundHalfEven(prob, 100)

(***************************************************************************)
(* simulator.py: MatchSimulator                                            *)
(***************************************************************************)
Team(name, players) == [name |-> name, players |-> players]

\* the local variables of run(), of _handle_counter_attack and of handle_corner
EmptyFrame ==
    [attack_home |-> FALSE, creator |-> NoPlayer, creator_pos |-> None,
     defender |-> NoPlayer, defender_pos |-> None, chance_type |-> None,
     success |-> FALSE, crit_level |-> "none",
     finisher |-> NoPlayer, finisher_pos |-> None,
     finish_defender |-> NoPlayer, finish_type |-> None,
     crit_level_finish |-> "none"]

\* the request: two rosters and a minute count, before any object is built
Request(home_players, away_players, minutes) ==
    [pc |-> "construct", error |-> None,
     home_team |-> Team("Home", home_players), away_team |-> Team("Away", away_players),
     minutes |-> minutes, minute |-> 0, log |-> <<>>,
     home_creator_matrix |-> <<>>, away_creator_matrix |-> <<>>,
     home_finisher_matrices |-> <<>>, away_finisher_matrices |-> <<>>,
     home_creator_vs_away_defend |-> <<>>, away_creator_vs_home_defend |-> <<>>,
     home_finish_vs_away_defend |-> <<>>, away_finish_vs_home_defend |-> <<>>,
     main |-> EmptyFrame, counter |-> EmptyFrame, corner |-> EmptyFrame]

FinisherMatrices(team) ==
    ("Short" :> build_match_finisher_matrix_weighted(BASE_FINISHER_SHORT_PASS_MATRIX, team)
     @@ "Crossing" :> build_match_finisher_matrix_weighted(BASE_FINISHER_CROSSING_MATRIX, team)
     @@ "Through" :> build_match_finisher_matrix_weighted(BASE_FINISHER_THROUGH_MATRIX, team)
     @@ "Long" :> build_match_finisher_matrix_weighted(BASE_FINISHER_LONG_PASS_MATRIX, team)
     @@ "Solo" :> build_solo_dribble_matrix(team))

\* MatchSimulator.__init__ and _build_matrices; the chance-type and the
\* chance-to-finish matrices are the shared static tables themselves
build_matrices(s) ==
    [s EXCEPT
       !.home_creator_matrix = get_team_match_creator_matrix(s.home_team, BASE_CREATOR_MATRIX),
       !.away_creator_matrix = get_team_match_creator_matrix(s.away_team, BASE_CREATOR_MATRIX),
       !.home_finisher_matrices = FinisherMatrices(s.home_team),
       !.away_finisher_matrices = FinisherMatrices(s.away_team),
       !.home_creator_vs_away_defend =
           build_match_defender_matrix_weighted(BASE_CREATOR_DEFEND_MATRIX, s.home_team, s.away_team),
       !.away_creator_vs_home_defend =
           build_match_defender_matrix_weighted(BASE_CREATOR_DEFEND_MATRIX, s.away_team, s.home_team),
       !.home_finish_vs_away_defend =
           build_match_defender_matrix_weighted(BASE_FINISH_DEFEND_MATRIX, s.home_team, s.away_team),
       !.away_finish_vs_home_defend =
           build_match_defender_matrix_weighted(BASE_FINISH_DEFEND_MATRIX, s.away_team, s.home_team)]

Out(s, r) == [sim |-> s, rng |-> r]

\* Team(...) twice, then simulate_match: MatchSimulator(...) and the first
\* iteration of run(); a roster that fails validation raises ValueError
\* before anything else is built
construct(s, r) ==
    IF ~validate_team(s.home_team.players) \/ ~validate_team(s.away_team.players)
    THEN {Out([s EXCEPT !.pc = "rejected", !.error = "ValueError"], r)}
    ELSE {Out([build_matrices(s) EXCEPT !.pc = IF s.minutes >= 1 THEN "run" ELSE "done",
                                        !.minute = 1], r)}

AtkTeam(s, f) == IF f.attack_home THEN s.home_team ELSE s.away_team
DefTeam(s, f) == IF f.attack_home THEN s.away_team ELSE s.home_team
CreatorMatrix(s, f) == IF f.attack_home THEN s.home_creator_matrix ELSE s.away_creator_matrix
FinisherMatrix(s, f) ==
    (IF f.attack_home THEN s.home_finisher_matrices ELSE s.away_finisher_matrices)[f.chance_type]
CreatorDefend(s, f) ==
    IF f.attack_home THEN s.home_creator_vs_away_defend ELSE s.away_creator_vs_home_defend
FinishDefend(s, f) ==
    IF f.attack_home THEN s.home_finish_vs_away_defend ELSE s.away_finish_vs_home_defend

\* an end of iteration that starts the next minute with an empty log
EndMinute_clearing_log(s) ==
    IF s.minute >= s.minutes THEN [s EXCEPT !.pc = "done"]
    ELSE [s EXCEPT !.pc = "run", !.minute = @ + 1, !.log = <<>>]

\* the end of an iteration of the loop of run(): the next minute, or the end of run()
EndMinute(s) ==
    IF s.minute >= s.minutes THEN [s EXCEPT !.pc = "done"]
    ELSE [s EXCEPT !.pc = "run", !.minute = @ + 1]

\* an exception that leaves run()
Raise(s, err) == [s EXCEPT !.pc = "raised", !.error = err]

Outcome(b, yes, no) == IF b THEN yes ELSE no

\* handle_penalty / handle_freekick
handle_set_piece(s, f, event_type, tag, fail_word, r) ==
    LET Logged(attacking_team, goalkeeper, taker, ev) ==
            IF ev.error THEN Out(Raise(s, "ValueError"), ev.rng)
            ELSE Out([s EXCEPT !.log = Append(@,
                         <<s.minute, "special_result", tag,
                           Outcome(ev.success, "goal", fail_word), Fmt2(ev.prob),
                           taker.name, goalkeeper.name, attacking_team.name,
                           ev.skills_used>>)], ev.rng)
        Taken(attacking_team, goalkeeper, taker) ==
            Logged(attacking_team, goalkeeper, taker.val,
                   eval_event(event_type, taker.val, goalkeeper, 0, taker.rng))
        From(attacking_team, goalkeeper, outfield_players) ==
            IF outfield_players = <<>> THEN Out(s, r)
            ELSE Taken(attacking_team, goalkeeper, random_choice(outfield_players, r))
    IN  From(AtkTeam(s, f), get_goalkeeper(DefTeam(s, f)),
             SelectSeq(AtkTeam(s, f).players, LAMBDA p : p.matrix_position # "GK"))

handle_penalty(s, f, r) == handle_set_piece(s, f, "Penalty", "penalty", "miss", r)
handle_freekick(s, f, r) == handle_set_piece(s, f, "Freekick", "free_kick", "saved", r)

\* a set piece after which the attack goes on to the finisher selection
AfterSetPiece_play_on(o) ==
    IF o.sim.pc = "raised" THEN o ELSE Out([o.sim EXCEPT !.pc = "finisher"], o.rng)

\* the end of a minute after a set piece, unless the set piece raised
AfterSetPiece(o) == IF o.sim.pc = "raised" THEN o ELSE Out(EndMinute(o.sim), o.rng)

\* run(), from the event gate to the creation entry (lines 449-498)
creation_with_defender(s, is_home, creator_pos, creator, dp) ==
    LET f0 == [s.main EXCEPT !.attack_home = is_home]
        Logged(d, ct, ev) ==
            IF ev.error THEN Out(Raise(s, "ValueError"), ev.rng)
            ELSE Out([s EXCEPT
                        !.log = Append(@,
                           <<s.minute, "result", "creation",
                             Outcome(ev.success, "success", "fail"), Fmt3(ev.prob),
                             ev.crit_level = "crit_2", creator.name, d.val.name, ct.val,
                             AtkTeam(s, f0).name, ev.skills_used>>),
                        !.main = [f0 EXCEPT !.creator = creator, !.creator_pos = creator_pos,
                                            !.defender = d.val, !.defender_pos = dp.val,
                                            !.chance_type = ct.val, !.success = ev.success,
                                            !.crit_level = ev.crit_level],
                        !.pc = "post_creation"], ev.rng)
        Typed(d, ct) ==
            IF ct.val = None THEN Out(EndMinute(s), ct.rng)
            ELSE Logged(d, ct, eval_event(ct.val, creator, d.val, 0, ct.rng))
        Defended(chance_type_matrix, d) ==
            IF creator_pos \notin DOMAIN chance_type_matrix
            THEN Out(EndMinute(s), d.rng)
            ELSE Typed(d, weighted_choice(chance_type_matrix[creator_pos], d.rng))
        Selected(opponent_team, d0) ==
            Defended(CREATOR_CHANCE_TYPE_MATRIX,
                     IF d0.val = NoPlayer THEN random_choice(opponent_team.players, d0.rng)
                     ELSE d0)
    IN  Selected(DefTeam(s, f0),
                 select_player_from_pos(DefTeam(s, f0), dp.val, NoPlayer, dp.rng))

run_creation(s, r) ==
    LET Frame(is_home) == [s.main EXCEPT !.attack_home = is_home]
        Defended(is_home, cp, cr, dp0) ==
            {creation_with_defender(s, is_home, cp.val, cr.val, dp) :
                dp \in IF dp0.val = None
                       THEN random_choice_of_set(PositionsOf(DefTeam(s, Frame(is_home))),
                                                 dp0.rng)
                       ELSE {dp0}}
        Created(is_home, cp, cr) ==
            IF cr.val = NoPlayer THEN {Out(EndMinute(s), cr.rng)}
            ELSE Defended(is_home, cp, cr,
                          weighted_choice(RowOf(CreatorDefend(s, Frame(is_home)), cp.val),
                                          cr.rng))
        Positioned(is_home, cp) ==
            IF cp.val = None THEN {Out(EndMinute(s), cp.rng)}
            ELSE Created(is_home, cp,
                         select_player_from_pos(AtkTeam(s, Frame(is_home)), cp.val,
                                                NoPlayer, cp.rng))
        Attacking(is_home, r2) ==
            Positioned(is_home, weighted_choice(CreatorMatrix(s, Frame(is_home)), r2))
    IN  IF ~(Unit(r) < 5000) THEN {Out(EndMinute(s), RngNext(r))}
        ELSE Attacking(Unit(RngNext(r)) < 5000, RngNext(RngNext(r)))

\* a counter-attack that leaves the ball with the side that just lost it
call_counter_same_side(s, counter_creator, reason, r) ==
    Out([s EXCEPT !.log = Append(@, <<s.minute, "special", "counter_attack",
                                      counter_creator.name, reason>>),
                  !.counter = [EmptyFrame EXCEPT !.attack_home = s.main.attack_home,
                                                 !.creator = counter_creator,
                                                 !.creator_pos = counter_creator.matrix_position],
                  !.pc = "counter"], r)

\* the call of _handle_counter_attack, after its marker entry is logged
call_counter(s, counter_creator, reason, r) ==
    Out([s EXCEPT !.log = Append(@, <<s.minute, "special", "counter_attack",
                                      counter_creator.name, reason>>),
                  !.counter = [EmptyFrame EXCEPT !.attack_home = ~s.main.attack_home,
                                                 !.creator = counter_creator,
                                                 !.creator_pos = counter_creator.matrix_position],
                  !.pc = "counter"], r)

\* a counter-attack draw that does not look at the creation outcome
post_creation_any_outcome(s, r) ==
    IF Unit(r) < 1500
    THEN {call_counter(s, s.main.defender, "after_creation_fail", RngNext(r))}
    ELSE {Out(EndMinute(s), RngNext(r))}

\* run(), after the creation entry (lines 500-516)
post_creation(s, r) ==
    LET f == s.main
        r1 == RngNext(r)
        r2 == RngNext(r1)
    IN  IF ~f.success
        THEN IF Unit(r) < 1500
             THEN {call_counter(s, f.defender, "after_creation_fail", r1)}
             ELSE {Out(EndMinute(s), r1)}
        ELSE IF Unit(r) < 100
        THEN {AfterSetPiece(handle_penalty(
                 [s EXCEPT !.log = Append(@, <<s.minute, "special", "penalty_awarded",
                                               AtkTeam(s, f).name, "during_creation">>)], f, r1))}
        ELSE IF Unit(r1) < 200
        THEN {AfterSetPiece(handle_freekick(
                 [s EXCEPT !.log = Append(@, <<s.minute, "special", "free_kick_awarded",
                                               AtkTeam(s, f).name, "during_creation">>)], f, r2))}
        ELSE {Out([s EXCEPT !.pc = "finisher"], r2)}

\* the finisher selection loop (lines 525-542, and 213-230 in the counter-attack);
\* attempts is the loop's counter of failed draws when the loop is left
RECURSIVE finisher_loop(_, _, _, _, _, _)
finisher_loop(team, possible_finishers, candidates, creator, attempts, r) ==
    LET Selected(fp, fin) ==
            IF fin.val # NoPlayer
            THEN [error |-> FALSE, finisher |-> fin.val, finisher_pos |-> fp.val,
                  attempts |-> attempts, rng |-> fin.rng]
            ELSE IF attempts + 1 > 10
            THEN [error |-> FALSE, finisher |-> creator,
                  finisher_pos |-> creator.matrix_position,
                  attempts |-> attempts + 1, rng |-> fin.rng]
            ELSE finisher_loop(team, possible_finishers, candidates, creator, attempts + 1, fin.rng)
        Positioned(fp) ==
            Selected(fp, select_player_from_pos(team, fp.val, creator, fp.rng))
        Drawn(wc) ==
            IF wc.val = None /\ possible_finishers = <<>>
            THEN [error |-> TRUE, finisher |-> NoPlayer, finisher_pos |-> None,
                  attempts |-> attempts, rng |-> wc.rng]
            ELSE Positioned(IF wc.val = None
                            THEN random_choice(Keys(possible_finishers), wc.rng) ELSE wc)
    IN  Drawn(weighted_choice(candidates, r))

\* a selection that sends the Solo chance through the loop as well
select_finisher_looping_solo(s, f, r) ==
    LET From(possible_finishers, others) ==
            finisher_loop(AtkTeam(s, f), possible_finishers,
                          IF others = <<>> THEN possible_finishers ELSE others,
                          f.creator, 0, r)
        Row(possible_finishers) ==
            From(possible_finishers,
                 SelectSeq(possible_finishers, LAMBDA kv : kv[1] # f.creator_pos))
    IN  Row(RowOf(FinisherMatrix(s, f), f.creator_pos))

select_finisher(s, f, r) ==
    LET From(possible_finishers, others) ==
            finisher_loop(AtkTeam(s, f), possible_finishers,
                          IF others = <<>> THEN possible_finishers ELSE others,
                          f.creator, 0, r)
        Row(possible_finishers) ==
            From(possible_finishers,
                 SelectSeq(possible_finishers, LAMBDA kv : kv[1] # f.creator_pos))
    IN  IF f.chance_type = "Solo"
        THEN [error |-> FALSE, finisher |-> f.creator, finisher_pos |-> f.creator_pos,
              attempts |-> 0, rng |-> r]
        ELSE Row(RowOf(FinisherMatrix(s, f), f.creator_pos))

\* run(), finisher selection and the special events during finishing (lines 518-552)
finisher_step(s, r) ==
    LET f == s.main
        Awarded(s1, tag) ==
            [s1 EXCEPT !.log = Append(@, <<s.minute, "special", tag,
                                           AtkTeam(s, f).name, "during_finish">>)]
        Chosen(sel, s1, r1, r2) ==
            IF sel.error THEN {Out(Raise(s, "IndexError"), sel.rng)}
            ELSE IF Unit(sel.rng) < 50
            THEN {AfterSetPiece(handle_penalty(Awarded(s1, "penalty_awarded"), f, r1))}
            ELSE IF Unit(r1) < 150
            THEN {AfterSetPiece(handle_freekick(Awarded(s1, "free_kick_awarded"), f, r2))}
            ELSE {Out([s1 EXCEPT !.pc = "finish_defender"], r2)}
        Selected(sel) ==
            Chosen(sel,
                   [s EXCEPT !.main = [f EXCEPT !.finisher = sel.finisher,
                                                !.finisher_pos = sel.finisher_pos]],
                   RngNext(sel.rng), RngNext(RngNext(sel.rng)))
    IN  Selected(select_finisher(s, f, r))

\* the finish-defender loop over a row with a positive total (lines 570-585, 248-263)
RECURSIVE finish_defender_loop(_, _, _, _, _, _, _)
finish_defender_loop(opponent_team, adjusted_probs, defender, defender_pos, num_in_pos, attempts, r) ==
    LET Selected(fd) ==
            IF fd.val # NoPlayer THEN {fd}
            ELSE IF attempts + 1 > 10 THEN {random_choice(opponent_team.players, fd.rng)}
            ELSE finish_defender_loop(opponent_team, adjusted_probs, defender, defender_pos,
                                      num_in_pos, attempts + 1, fd.rng)
        Positioned(fdp) ==
            Selected(select_player_from_pos(
                         opponent_team, fdp.val,
                         IF num_in_pos = 1 /\ fdp.val = defender_pos THEN defender ELSE NoPlayer,
                         fdp.rng))
        Drawn(wc) ==
            Positioned(IF wc.val = None
                       THEN random_choice(Keys(adjusted_probs), wc.rng) ELSE wc)
    IN  Drawn(weighted_choice(adjusted_probs, r))

\* the same loop over the uniform row built from set(all positions), whose
\* key order is not fixed: d is the index at which defender_pos happens to
\* sit; a draw landing elsewhere yields any other position
RECURSIVE uniform_defender_loop(_, _, _, _, _, _)
uniform_defender_loop(opponent_team, others, n, d, attempts, r) ==
    IF (Unit(r) * n) \div 10000 # d
    THEN UNION {{select_player_from_pos(opponent_team, p, NoPlayer, RngNext(r))} : p \in others}
    ELSE IF attempts + 1 > 10 THEN {random_choice(opponent_team.players, RngNext(r))}
    ELSE uniform_defender_loop(opponent_team, others, n, d, attempts + 1, RngNext(r))

\* finish-defender selection (lines 554-585, 232-263): the set of possible
\* (player, generator state) results
select_finish_defender(opponent_team, defend_probs_fin, defender, defender_pos, r) ==
    LET Adjusted(num_in_pos, adjusted_probs, all_positions) ==
            IF SumWeights(adjusted_probs) > 0
            THEN finish_defender_loop(opponent_team, adjusted_probs, defender, defender_pos,
                                      num_in_pos, 0, r)
            ELSE IF num_in_pos # 1
            THEN {select_player_from_pos(opponent_team, p, NoPlayer, RngNext(r)) :
                     p \in all_positions}
            ELSE UNION {uniform_defender_loop(opponent_team, all_positions \ {defender_pos},
                                              Cardinality(all_positions), d, 0, r) :
                        d \in 0 .. Cardinality(all_positions) - 1}
        Counted(num_in_pos) ==
            Adjusted(num_in_pos,
                     [i \in DOMAIN defend_probs_fin |->
                         IF defend_probs_fin[i][1] = defender_pos /\ num_in_pos = 1
                         THEN <<defender_pos, 0>> ELSE defend_probs_fin[i]],
                     PositionsOf(opponent_team))
    IN  Counted(Len(get_players_by_position(opponent_team, defender_pos)))

\* finish-type selection (lines 587-591, 265-269)
select_finish_type(chance_type, r) ==
    LET Drawn(finish_type_probs, wc) ==
            IF wc.val = None THEN random_choice(Keys(finish_type_probs), wc.rng) ELSE wc
        From(finish_type_probs) ==
            Drawn(finish_type_probs, weighted_choice(finish_type_probs, r))
    IN  From(CHANCE_TO_FINISH_TYPE_MATRIX[chance_type])

\* a selection step after which the defending side has a minute in its legs
finish_defender_step_tiring(s, f, frame_name, next_pc, r) ==
    LET Tired(players) == [i \in DOMAIN players |->
                              [players[i] EXCEPT !.minutes_played = s.minute]]
        Typed(fd, ft) ==
            Out([s EXCEPT ![frame_name] = [f EXCEPT !.finish_defender = fd.val,
                                                    !.finish_type = ft.val],
                          !.pc = next_pc,
                          !.home_team.players = Tired(s.home_team.players),
                          !.away_team.players = Tired(s.away_team.players)], ft.rng)
    IN  {Typed(fd, select_finish_type(f.chance_type, fd.rng)) :
         fd \in select_finish_defender(DefTeam(s, f), RowOf(FinishDefend(s, f), f.finisher_pos),
                                       f.defender, f.defender_pos, r)}

\* finish-defender and finish-type selection of a flow whose frame is f
finish_defender_step(s, f, frame_name, next_pc, r) ==
    LET Typed(fd, ft) ==
            Out([s EXCEPT ![frame_name] = [f EXCEPT !.finish_defender = fd.val,
                                                    !.finish_type = ft.val],
                          !.pc = next_pc], ft.rng)
    IN  {Typed(fd, select_finish_type(f.chance_type, fd.rng)) :
         fd \in select_finish_defender(DefTeam(s, f), RowOf(FinishDefend(s, f), f.finisher_pos),
                                       f.defender, f.defender_pos, r)}

\* a shot bonus for the best finish only
ShotBonus_crit_2_only(crit_level_finish) ==
    IF crit_level_finish = "crit_2" THEN 1000 ELSE 0

ShotBonus(crit_level_finish) ==
    IF crit_level_finish = "crit_2" THEN 1000
    ELSE IF crit_level_finish = "crit_1" THEN 500 ELSE 0

\* an interception check whose success does not stop the attack
finish_eval_play_on(s, f, frame_name, r) ==
    LET team == AtkTeam(s, f)
        Finished(s1, ev) ==
            IF ev.error THEN Out(Raise(s1, "ValueError"), ev.rng)
            ELSE Out([s1 EXCEPT
                        !.log = Append(@,
                           <<s.minute, "result", "finish",
                             Outcome(ev.success, "success", "fail"), Fmt3(ev.prob),
                             ev.crit_level, f.finisher.name, f.finish_defender.name,
                             f.finish_type, team.name, ev.skills_used>>),
                        ![frame_name] = [f EXCEPT !.crit_level_finish = ev.crit_level],
                        !.pc = IF ev.success THEN "shot" ELSE "finish_failed"], ev.rng)
        AfterIntercept(o) ==
            IF o.sim.pc \in {"raised", "intercepted"} THEN o
            ELSE Finished(o.sim,
                          eval_event(f.chance_type \o "_finisher", f.finisher, f.finish_defender,
                                     IF f.crit_level = "crit_2" THEN 1000 ELSE 0, o.rng))
        Intercept(goalkeeper, iv) ==
            IF iv.error THEN Out(Raise(s, "ValueError"), iv.rng)
            ELSE Out([s EXCEPT
                        !.log = Append(@,
                           <<s.minute, "result", "goalkeeper_intercept",
                             Outcome(iv.success, "success", "fail"), Fmt2(iv.prob),
                             f.finisher.name, goalkeeper.name, f.chance_type, team.name,
                             iv.skills_used>>)], iv.rng)
        WithKeeper(goalkeeper) ==
            Intercept(goalkeeper,
                      eval_event(f.chance_type \o "_intercept", goalkeeper, f.finisher, 0, r))
    IN  AfterIntercept(IF f.chance_type \in {"Long", "Through", "Crossing"}
                       THEN WithKeeper(get_goalkeeper(DefTeam(s, f)))
                       ELSE Out(s, r))

\* the interception check and the finish evaluation (lines 593-621, 271-297);
\* the returned state has pc "shot" after a successful finish, "finish_failed"
\* after a failed one, and "intercepted" after an interception
finish_eval(s, f, frame_name, r) ==
    LET team == AtkTeam(s, f)
        Finished(s1, ev) ==
            IF ev.error THEN Out(Raise(s1, "ValueError"), ev.rng)
            ELSE Out([s1 EXCEPT
                        !.log = Append(@,
                           <<s.minute, "result", "finish",
                             Outcome(ev.success, "success", "fail"), Fmt3(ev.prob),
                             ev.crit_level, f.finisher.name, f.finish_defender.name,
                             f.finish_type, team.name, ev.skills_used>>),
                        ![frame_name] = [f EXCEPT !.crit_level_finish = ev.crit_level],
                        !.pc = IF ev.success THEN "shot" ELSE "finish_failed"], ev.rng)
        AfterIntercept(o) ==
            IF o.sim.pc \in {"raised", "intercepted"} THEN o
            ELSE Finished(o.sim,
                          eval_event(f.chance_type \o "_finisher", f.finisher, f.finish_defender,
                                     IF f.crit_level = "crit_2" THEN 1000 ELSE 0, o.rng))
        Intercept(goalkeeper, iv) ==
            IF iv.error THEN Out(Raise(s, "ValueError"), iv.rng)
            ELSE Out([s EXCEPT
                        !.log = Append(@,
                           <<s.minute, "result", "goalkeeper_intercept",
                             Outcome(iv.success, "success", "fail"), Fmt2(iv.prob),
                             f.finisher.name, goalkeeper.name, f.chance_type, team.name,
                             iv.skills_used>>),
                        !.pc = IF iv.success THEN "intercepted" ELSE @], iv.rng)
        WithKeeper(goalkeeper) ==
            Intercept(goalkeeper,
                      eval_event(f.chance_type \o "_intercept", goalkeeper, f.finisher, 0, r))
    IN  AfterIntercept(IF f.chance_type \in {"Long", "Through", "Crossing"}
                       THEN WithKeeper(get_goalkeeper(DefTeam(s, f)))
                       ELSE Out(s, r))

\* a corner awarded to the side that made the save
call_corner_for_defence(s, f, r) ==
    Out([s EXCEPT !.log = Append(@, <<s.minute, "special", "corner_kick", DefTeam(s, f).name>>),
                  !.corner = [EmptyFrame EXCEPT !.attack_home = f.attack_home],
                  !.pc = "corner"], r)

\* the call of handle_corner, after its marker entry is logged
call_corner(s, f, r) ==
    Out([s EXCEPT !.log = Append(@, <<s.minute, "special", "corner_kick", AtkTeam(s, f).name>>),
                  !.corner = [EmptyFrame EXCEPT !.attack_home = f.attack_home],
                  !.pc = "corner"], r)

\* shot quality, then the save or the miss, then the corner draw
\* (lines 631-678, 302-346)
shot_eval(s, f, r) ==
    LET team == AtkTeam(s, f)
        Saved(s2, sv) ==
            IF ~sv.success THEN Out(EndMinute(s2), sv.rng)
            ELSE IF Unit(sv.rng) < 3000 THEN call_corner(s2, f, RngNext(sv.rng))
            ELSE Out(EndMinute(s2), RngNext(sv.rng))
        Save(s1, goalkeeper, sv) ==
            IF sv.error THEN Out(Raise(s1, "ValueError"), sv.rng)
            ELSE Saved([s1 EXCEPT !.log = Append(@,
                          <<s.minute, "result", "save",
                            Outcome(sv.success, "saved", "goal"), Fmt2(sv.prob),
                            f.finisher.name, goalkeeper.name, f.finish_type, team.name,
                            sv.skills_used>>)], sv)
        Shot(s1, sq, goalkeeper) ==
            IF ~sq.success
            THEN Out(EndMinute([s1 EXCEPT !.log = Append(@,
                       <<s.minute, "result", "finish_outcome", "miss", Fmt2(sq.prob),
                         f.finisher.name, f.finish_defender.name, f.finish_type, team.name,
                         sq.skills_used>>)]), sq.rng)
            ELSE Save(s1, goalkeeper,
                      eval_event(f.finish_type \o "_save", goalkeeper, f.finisher, 0, sq.rng))
        Quality(sq) ==
            IF sq.error THEN Out(Raise(s, "ValueError"), sq.rng)
            ELSE Shot([s EXCEPT !.log = Append(@,
                         <<s.minute, "result", "shot_quality",
                           Outcome(sq.success, "on_target", "off_target"), Fmt2(sq.prob),
                           f.finisher.name, f.finish_defender.name, f.finish_type, team.name,
                           sq.skills_used>>)],
                      sq, get_goalkeeper(DefTeam(s, f)))
    IN  Quality(eval_event(f.finish_type, f.finisher, f.finish_defender,
                           ShotBonus(f.crit_level_finish), r))

\* run(), interception, finish and the counter-attack draw (lines 593-629)
main_finish(s, r) ==
    LET After(o) ==
            IF o.sim.pc = "intercepted" THEN {Out(EndMinute(o.sim), o.rng)}
            ELSE IF o.sim.pc = "finish_failed"
            THEN IF Unit(o.rng) < 2000
                 THEN {call_counter(o.sim, o.sim.main.finish_defender, "after_finisher_fail",
                                    RngNext(o.rng))}
                 ELSE {Out(EndMinute(o.sim), RngNext(o.rng))}
            ELSE {o}
    IN  After(finish_eval(s, s.main, "main", r))

\* _handle_counter_attack, to the creation entry (lines 163-204)
counter_with_defender(s, f, chance_type, dp) ==
    LET Logged(ev, s1) ==
            IF ev.success THEN Out([s1 EXCEPT !.pc = "counter_finisher"], ev.rng)
            ELSE Out(EndMinute(s1), ev.rng)
        Evaluated(d, ev) ==
            IF ev.error THEN Out(Raise(s, "ValueError"), ev.rng)
            ELSE Logged(ev,
                   [s EXCEPT
                      !.log = Append(@,
                         <<s.minute, "result", "creation",
                           Outcome(ev.success, "success", "fail"), Fmt3(ev.prob),
                           ev.crit_level = "crit_2", f.creator.name, d.val.name, chance_type,
                           AtkTeam(s, f).name, ev.skills_used>>),
                      !.counter = [f EXCEPT !.defender = d.val, !.defender_pos = dp.val,
                                            !.chance_type = chance_type,
                                            !.success = ev.success,
                                            !.crit_level = ev.crit_level]])
        Defended(d) == Evaluated(d, eval_event(chance_type, f.creator, d.val, 0, d.rng))
        Selected(counter_defending_team, d0) ==
            Defended(IF d0.val = NoPlayer
                     THEN random_choice(counter_defending_team.players, d0.rng) ELSE d0)
    IN  Selected(DefTeam(s, f), select_player_from_pos(DefTeam(s, f), dp.val, NoPlayer, dp.rng))

counter_creation(s, r) ==
    LET f == s.counter
        Drawn(ct, dp0) ==
            {counter_with_defender(s, f, ct.val, dp) :
                dp \in IF dp0.val = None
                       THEN random_choice_of_set(PositionsOf(DefTeam(s, f)), dp0.rng)
                       ELSE {dp0}}
        Typed(ct) ==
            Drawn(ct, weighted_choice(RowOf(CreatorDefend(s, f), f.creator_pos), ct.rng))
    IN  Typed(random_choice(<<"Through", "Long", "Solo">>, r))

\* _handle_counter_attack, finisher selection (lines 206-230)
counter_finisher(s, r) ==
    LET f == s.counter
        Selected(sel) ==
            IF sel.error THEN {Out(Raise(s, "IndexError"), sel.rng)}
            ELSE {Out([s EXCEPT !.counter = [f EXCEPT !.finisher = sel.finisher,
                                                      !.finisher_pos = sel.finisher_pos],
                                !.pc = "counter_finish_defender"], sel.rng)}
    IN  Selected(select_finisher(s, f, r))

\* _handle_counter_attack, interception and finish (lines 271-300)
counter_finish(s, r) ==
    LET After(o) ==
            IF o.sim.pc \in {"intercepted", "finish_failed"} THEN {Out(EndMinute(o.sim), o.rng)}
            ELSE IF o.sim.pc = "shot" THEN {Out([o.sim EXCEPT !.pc = "counter_shot"], o.rng)}
            ELSE {o}
    IN  After(finish_eval(s, s.counter, "counter", r))

\* handle_corner: top5_aerial, a stable sort in descending order of
\* Heading + Jump Reach, cut to five
Aerial(p) == get_attr(p, "Heading") + get_attr(p, "Jump Reach")

RECURSIVE SortedByAerial(_)
SortedByAerial(pool) ==
    IF pool = <<>> THEN <<>>
    ELSE LET Picked(best) ==
                 <<pool[best]>> \o SortedByAerial(SubSeq(pool, 1, best - 1)
                                                  \o SubSeq(pool, best + 1, Len(pool)))
         IN  Picked(CHOOSE i \in DOMAIN pool :
                       /\ \A j \in DOMAIN pool : Aerial(pool[j]) <= Aerial(pool[i])
                       /\ \A j \in 1 .. i - 1 : Aerial(pool[j]) < Aerial(pool[i]))

\* a top5_aerial that cuts the pool without sorting it
top5_aerial_unsorted(players, exclude) ==
    LET Cut(pool) == IF Len(pool) >= 5 THEN SubSeq(pool, 1, 5) ELSE pool
    IN  Cut(SelectSeq(players, LAMBDA p : p # exclude))

top5_aerial(players, exclude) ==
    LET Cut(pool) == IF Len(pool) >= 5 THEN SubSeq(pool, 1, 5) ELSE pool
    IN  Cut(SortedByAerial(SelectSeq(players, LAMBDA p : p # exclude)))

\* handle_corner, to the creation entry (lines 352-379)
corner_with_defender(s, f, creator, dp) ==
    LET Logged(ev, s1) ==
            IF ev.success THEN Out([s1 EXCEPT !.pc = "corner_finish"], ev.rng)
            ELSE Out(EndMinute(s1), ev.rng)
        Evaluated(d, ev) ==
            IF ev.error THEN Out(Raise(s, "ValueError"), ev.rng)
            ELSE Logged(ev,
                   [s EXCEPT
                      !.log = Append(@,
                         <<s.minute, "corner", "creation",
                           Outcome(ev.success, "success", "fail"), Fmt3(ev.prob),
                           ev.crit_level = "crit_2", creator.name, d.val.name, "Corner",
                           AtkTeam(s, f).name, ev.skills_used>>),
                      !.corner = [f EXCEPT !.creator = creator,
                                           !.creator_pos = creator.matrix_position,
                                           !.defender = d.val, !.defender_pos = dp.val,
                                           !.chance_type = "Corner", !.success = ev.success,
                                           !.crit_level = ev.crit_level]])
        Defended(d) == Evaluated(d, eval_event("Corner", creator, d.val, 0, d.rng))
        Selected(defending_team, d0) ==
            Defended(IF d0.val = NoPlayer
                     THEN random_choice(defending_team.players, d0.rng) ELSE d0)
    IN  Selected(DefTeam(s, f), select_player_from_pos(DefTeam(s, f), dp.val, NoPlayer, dp.rng))

corner_creation(s, r) ==
    LET f == s.corner
        Drawn(cr, defend_probs, dp0) ==
            {corner_with_defender(s, f, cr.val, dp) :
                dp \in IF defend_probs = <<>>
                       THEN random_choice_of_set(PositionsOf(DefTeam(s, f)), cr.rng)
                       ELSE IF dp0.val = None
                       THEN {random_choice(Keys(defend_probs), dp0.rng)}
                       ELSE {dp0}}
        Row(cr, defend_probs) == Drawn(cr, defend_probs, weighted_choice(defend_probs, cr.rng))
        Taker(cr) == Row(cr, RowOf(CreatorDefend(s, f), cr.val.matrix_position))
    IN  Taker(random_choice(AtkTeam(s, f).players, r))

\* handle_corner, the header duel (lines 381-414)
corner_finish(s, r) ==
    LET f == s.corner
        Logged(ev, s1) ==
            IF ev.success THEN {Out([s1 EXCEPT !.pc = "corner_shot"], ev.rng)}
            ELSE {Out(EndMinute(s1), ev.rng)}
        Duel(fin, fd, ev) ==
            IF ev.error THEN {Out(Raise(s, "ValueError"), ev.rng)}
            ELSE Logged(ev,
                   [s EXCEPT
                      !.log = Append(@,
                         <<s.minute, "corner", "finish",
                           Outcome(ev.success, "success", "fail"), Fmt3(ev.prob),
                           ev.crit_level = "crit_2", fin.val.name, fd.val.name, "Header",
                           AtkTeam(s, f).name, ev.skills_used>>),
                      !.corner = [f EXCEPT !.finisher = fin.val,
                                           !.finisher_pos = fin.val.matrix_position,
                                           !.finish_defender = fd.val,
                                           !.finish_type = "Header",
                                           !.crit_level_finish = ev.crit_level]])
        Marked(fin, fd) ==
            Duel(fin, fd, eval_event("Header" \o "_duel", fin.val, fd.val,
                                     IF f.crit_level = "crit_2" THEN 1000 ELSE 0, fd.rng))
        Headed(top_defend, fin) == Marked(fin, random_choice(top_defend, fin.rng))
        Pools(top_attack, top_defend0, defending_team) ==
            IF top_attack = <<>> THEN {Out(EndMinute(s), r)}
            ELSE Headed(IF top_defend0 = <<>> THEN defending_team.players ELSE top_defend0,
                        random_choice(top_attack, r))
    IN  Pools(top5_aerial(AtkTeam(s, f).players, f.creator),
              top5_aerial(DefTeam(s, f).players, NoPlayer), DefTeam(s, f))

\* a corner whose header reaches the goalkeeper wherever it goes
corner_shot_keeper_always(s, r) ==
    LET f == s.corner
        team == AtkTeam(s, f)
        Save(s1, goalkeeper, sv) ==
            IF sv.error THEN {Out(Raise(s1, "ValueError"), sv.rng)}
            ELSE {Out(EndMinute([s1 EXCEPT !.log = Append(@,
                        <<s.minute, "corner", "save",
                          Outcome(sv.success, "saved", "goal"), Fmt2(sv.prob),
                          f.finisher.name, goalkeeper.name, f.finish_type, team.name,
                          sv.skills_used>>)]), sv.rng)}
        Shot(s1, sq, goalkeeper) ==
            Save(s1, goalkeeper,
                 eval_event(f.finish_type \o "_save", goalkeeper, f.finisher, 0, sq.rng))
        Quality(sq) ==
            IF sq.error THEN {Out(Raise(s, "ValueError"), sq.rng)}
            ELSE Shot([s EXCEPT !.log = Append(@,
                         <<s.minute, "corner", "shot_quality",
                           Outcome(sq.success, "on_target", "off_target"), Fmt2(sq.prob),
                           f.finisher.name, f.finish_defender.name, f.finish_type, team.name,
                           sq.skills_used>>)],
                      sq, get_goalkeeper(DefTeam(s, f)))
    IN  Quality(eval_event(f.finish_type, f.finisher, f.finish_defender, 0, r))

\* handle_corner, shot quality and save (lines 416-445)
corner_shot(s, r) ==
    LET f == s.corner
        team == AtkTeam(s, f)
        Save(s1, goalkeeper, sv) ==
            IF sv.error THEN {Out(Raise(s1, "ValueError"), sv.rng)}
            ELSE {Out(EndMinute([s1 EXCEPT !.log = Append(@,
                        <<s.minute, "corner", "save",
                          Outcome(sv.success, "saved", "goal"), Fmt2(sv.prob),
                          f.finisher.name, goalkeeper.name, f.finish_type, team.name,
                          sv.skills_used>>)]), sv.rng)}
        Shot(s1, sq, goalkeeper) ==
            IF ~sq.success
            THEN {Out(EndMinute([s1 EXCEPT !.log = Append(@,
                        <<s.minute, "corner", "finish_outcome", "miss", Fmt2(sq.prob),
                          f.finisher.name, f.finish_defender.name, f.finish_type, team.name,
                          sq.skills_used>>)]), sq.rng)}
            ELSE Save(s1, goalkeeper,
                      eval_event(f.finish_type \o "_save", goalkeeper, f.finisher, 0, sq.rng))
        Quality(sq) ==
            IF sq.error THEN {Out(Raise(s, "ValueError"), sq.rng)}
            ELSE Shot([s EXCEPT !.log = Append(@,
                         <<s.minute, "corner", "shot_quality",
                           Outcome(sq.success, "on_target", "off_target"), Fmt2(sq.prob),
                           f.finisher.name, f.finish_defender.name, f.finish_type, team.name,
                           sq.skills_used>>)],
                      sq, get_goalkeeper(DefTeam(s, f)))
    IN  Quality(eval_event(f.finish_type, f.finisher, f.finish_defender, 0, r))

(***************************************************************************)
(* statistics.py: counters, floats and the ledgers                         *)
(***************************************************************************)
\* collections.Counter: a finite map to integers; an absent key counts 0
EmptyCounter == [k \in {} |-> 0]

Get(c, k) == IF k \in DOMAIN c THEN c[k] ELSE 0

\* c[k] += n
Inc(c, k, n) == IF k \in DOMAIN c THEN [c EXCEPT ![k] = @ + n] ELSE c @@ (k :> n)

\* Counter.update(other): counts are added
Update(c, other) == [k \in DOMAIN c \cup DOMAIN other |-> Get(c, k) + Get(other, k)]

\* A Python float (IEEE-754 double) of the magnitudes the ledgers hold, as the
\* integer value * 2^60 written in three limbs <<low, middle, high>> of 24 bits
Limb == 2 ^ 24

FloatZero == <<0, 0, 0>>

\* the floats 0.1, 0.2, .., 1.0 of the weight literals of EVENT_SKILL_WEIGHTS
FloatOfTenths ==
    <<<<10066336, 10066329, 409>>,
      <<3355456, 3355443, 819>>,
      <<13421760, 13421772, 1228>>,
      <<6710912, 6710886, 1638>>,
      <<0, 0, 2048>>,
      <<10066304, 10066329, 2457>>,
      <<3355392, 3355443, 2867>>,
      <<13421824, 13421772, 3276>>,
      <<6710912, 6710886, 3686>>,
      <<0, 0, 4096>>>>

RECURSIVE BitLen(_)
BitLen(n) == IF n = 0 THEN 0 ELSE 1 + BitLen(n \div 2)

Carry(l0, l1, l2) ==
    LET m1 == l1 + l0 \div Limb
    IN  <<l0 % Limb, m1 % Limb, l2 + m1 \div Limb>>

\* round to nearest, ties to even, onto the 53-bit significand of a double
RoundDouble(x) ==
    LET d == 48 + BitLen(x[3]) - 53
        m == 2 ^ d
        rem == x[1] % m
        q == x[1] \div m
        up == 2 * rem > m \/ (2 * rem = m /\ q % 2 = 1)
    IN  IF d <= 0 THEN x
        ELSE Carry(x[1] - rem + (IF up THEN m ELSE 0), x[2], x[3])

\* x + y on floats
FloatAdd(x, y) ==
    LET s0 == x[1] + y[1]
        s1 == x[2] + y[2] + s0 \div Limb
    IN  RoundDouble(<<s0 % Limb, s1 % Limb, x[3] + y[3] + s1 \div Limb>>)

FloatGet(c, k) == IF k \in DOMAIN c THEN c[k] ELSE FloatZero

\* a dict in insertion order, as the sequence of its <<key, value>> items
ItemIndex(items, k) == CHOOSE i \in DOMAIN items : items[i][1] = k

ItemAdd(items, k, w) ==
    IF HasKey(items, k)
    THEN [items EXCEPT ![ItemIndex(items, k)] = <<k, FloatAdd(@[2], w)>>]
    ELSE Append(items, <<k, FloatAdd(FloatZero, w)>>)

OffDefSplit == [attempt_by_type |-> EmptyCounter, success_by_type |-> EmptyCounter]

ShootingSplit ==
    [shots_by_type |-> EmptyCounter, shots_on_by_type |-> EmptyCounter,
     goals_by_type |-> EmptyCounter]

GoalkeeperStats ==
    [intercept_attempts_by_type |-> EmptyCounter,
     intercept_successes_by_type |-> EmptyCounter,
     corner_intercepts_attempted |-> 0, corner_intercepts_successful |-> 0,
     shots_conceded_by_type |-> EmptyCounter,
     shots_on_target_by_type |-> EmptyCounter,
     saves_by_type |-> EmptyCounter]

\* SkillUsage: usage_by_event[skill][event_type] is keyed by the pair
SkillUsage == [usage_by_event |-> EmptyCounter, total_usage |-> EmptyCounter]

RECURSIVE add_usage(_, _, _)
add_usage(su, skills, event_type) ==
    IF skills = <<>> THEN su
    ELSE add_usage([usage_by_event |-> Inc(su.usage_by_event, <<Head(skills), event_type>>, 1),
                    total_usage |-> Inc(su.total_usage, Head(skills), 1)],
                   Tail(skills), event_type)

\* WeightedSkillUsage: usage_by_event holds the <<skill, event_type>> items in
\* the order the nested dicts iterate them for any one skill
WeightedSkillUsage == [usage_by_event |-> <<>>, total_usage |-> EmptyCounter]

RECURSIVE add_weighted_usage(_, _, _)
add_weighted_usage(wu, skills_with_weights, event_type) ==
    IF skills_with_weights = <<>> THEN wu
    ELSE LET skill == skills_with_weights[1][1]
             weight == FloatOfTenths[skills_with_weights[1][2]]
         IN  add_weighted_usage(
                 [usage_by_event |-> ItemAdd(wu.usage_by_event, <<skill, event_type>>, weight),
                  total_usage |-> (skill :> FloatAdd(FloatGet(wu.total_usage, skill), weight))
                                  @@ wu.total_usage],
                 Tail(skills_with_weights), event_type)

filter_skills_for_player(skills, is_goalkeeper) ==
    IF is_goalkeeper THEN skills
    ELSE SelectSeq(skills, LAMBDA item : item[1] \notin GK_ONLY_SKILLS)

\* a filter that keeps every skill
keep_skills_list(skills, is_goalkeeper) == skills

\* filter_skills_list_for_player: goalkeeper-only skills are dropped for the others
filter_skills_list_for_player(skills, is_goalkeeper) ==
    IF is_goalkeeper THEN skills
    ELSE SelectSeq(skills, LAMBDA skill : skill \notin GK_ONLY_SKILLS)

TeamStatsV2(name) ==
    [name |-> name,
     creator_off |-> OffDefSplit, creator_def |-> OffDefSplit,
     finisher_off |-> OffDefSplit, finisher_def |-> OffDefSplit,
     shooting |-> ShootingSplit,
     skill_usage |-> SkillUsage, weighted_skill_usage |-> WeightedSkillUsage,
     result_frequency |-> EmptyCounter, score_frequency |-> EmptyCounter]

PlayerStatsV2(name, team, position) ==
    [name |-> name, team |-> team, position |-> position,
     creator_off |-> OffDefSplit, creator_def |-> OffDefSplit,
     finisher_off |-> OffDefSplit, finisher_def |-> OffDefSplit,
     shooting |-> ShootingSplit,
     assists_by_chance_type |-> EmptyCounter,
     skill_usage |-> SkillUsage, weighted_skill_usage |-> WeightedSkillUsage,
     goalkeeper_stats |-> GoalkeeperStats,
     corners_taken |-> 0, corners_successful |-> 0, corner_shots |-> 0,
     corner_shots_success |-> 0, corner_goals |-> 0]

\* _player_positions of MatchStatsV2.__init__
player_positions(home_team, away_team) ==
    [key \in {<<home_team.name, home_team.players[i].name>> : i \in DOMAIN home_team.players}
             \cup {<<away_team.name, away_team.players[i].name>> : i \in DOMAIN away_team.players} |->
        LET team == IF key[1] = away_team.name
                       /\ \E i \in DOMAIN away_team.players : away_team.players[i].name = key[2]
                    THEN away_team ELSE home_team
            last == CHOOSE i \in DOMAIN team.players :
                       /\ team.players[i].name = key[2]
                       /\ \A j \in DOMAIN team.players : team.players[j].name = key[2] => j <= i
        IN  team.players[last].matrix_position]

MatchStatsV2(home_team, away_team) ==
    [team |-> (away_team.name :> TeamStatsV2(away_team.name))
              @@ (home_team.name :> TeamStatsV2(home_team.name)),
     player |-> EmptyCounter,
     home_team |-> home_team, away_team |-> away_team,
     positions |-> player_positions(home_team, away_team)]

\* MatchStatsV2.ps: get or create the player's ledger
ps(ms, team_name, player_name) ==
    LET key == <<team_name, player_name>>
        position == IF key \in DOMAIN ms.positions THEN ms.positions[key] ELSE ""
    IN  IF key \in DOMAIN ms.player THEN ms
        ELSE [ms EXCEPT !.player = @ @@ (key :> PlayerStatsV2(player_name, team_name, position))]

(***************************************************************************)
(* statistics.py: aggregate_match_log_to_stats_v2                          *)
(***************************************************************************)
\* ms.team[t].<split>.<field>[key] += 1
TeamInc(ms, t, split, field, key) ==
    [ms EXCEPT !.team[t][split][field] = Inc(@, key, 1)]

\* ms.ps(t, n).<split>.<field>[key] += 1
PlayerInc(ms, t, n, split, field, key) ==
    [ps(ms, t, n) EXCEPT !.player[<<t, n>>][split][field] = Inc(@, key, 1)]

\* ms.ps(t, n).<field> += 1
PlayerAdd(ms, t, n, field) ==
    [ps(ms, t, n) EXCEPT !.player[<<t, n>>][field] = @ + 1]

\* ms.ps(t, n).goalkeeper_stats.<field> += 1
KeeperAdd(ms, t, n, field) ==
    [ps(ms, t, n) EXCEPT !.player[<<t, n>>].goalkeeper_stats[field] = @ + 1]

\* ms.team[t]: skill_usage.add_usage, then weighted_skill_usage.add_usage when
\* the event type has weights
TeamUsage(ms, t, skills_used, event_type) ==
    LET skill_weights == RowOf(EVENT_SKILL_WEIGHTS, event_type)
    IN  [ms EXCEPT !.team[t].skill_usage = add_usage(@, skills_used, event_type),
                   !.team[t].weighted_skill_usage =
                       IF skill_weights # <<>>
                       THEN add_weighted_usage(@, skill_weights, event_type) ELSE @]

\* ms.ps(t, n): the same two ledgers, each through the filter keyed by the position
PlayerUsage(ms, t, n, skills_used, event_type) ==
    LET m == ps(ms, t, n)
        is_gk == m.player[<<t, n>>].position = "GK"
        skill_weights == RowOf(EVENT_SKILL_WEIGHTS, event_type)
    IN  [m EXCEPT !.player[<<t, n>>].skill_usage =
                      add_usage(@, filter_skills_list_for_player(skills_used, is_gk), event_type),
                  !.player[<<t, n>>].weighted_skill_usage =
                      IF skill_weights # <<>>
                      THEN add_weighted_usage(@, filter_skills_for_player(skill_weights, is_gk),
                                              event_type)
                      ELSE @]

\* isinstance(rest[-1], list): of the tuples the simulator appends, those of
\* section "special" end with a string, the others with the skills_used list
EndsWithList(entry) == Len(entry) > 3 /\ entry[2] # "special"

SkillsUsed(entry) == IF EndsWithList(entry) THEN entry[Len(entry)] ELSE <<>>

Rest(entry) ==
    IF EndsWithList(entry) THEN SubSeq(entry, 4, Len(entry) - 1)
    ELSE SubSeq(entry, 4, Len(entry))

\* the first goalkeeper by position of the defending team, None without one
def_goalkeeper(team) ==
    LET at == {i \in DOMAIN team.players : team.players[i].matrix_position = "GK"}
    IN  IF at = {} THEN None
        ELSE team.players[CHOOSE i \in at : \A j \in at : i <= j].name

\* the branch of the if/elif chain that an entry takes, "none" when it falls through
Branch(section, tag) ==
    IF section = "result" /\ tag = "creation" THEN "creation"
    ELSE IF section = "result" /\ tag = "finish" THEN "finish"
    ELSE IF section = "result" /\ tag = "shot_quality" THEN "shot_quality"
    ELSE IF section = "result" /\ tag = "save" THEN "save"
    ELSE IF section = "corner" THEN
        (IF tag \in {"gk_intercept", "delivery", "finish", "shot_quality", "save", "finish_outcome"}
         THEN "corner_" \o tag ELSE "none")
    ELSE IF section = "special_result"
            /\ tag \in {"penalty", "penalty_save", "penalty_miss",
                        "free_kick", "free_kick_save", "free_kick_miss"} THEN tag
    ELSE IF section = "result" /\ tag = "goalkeeper_intercept" THEN "goalkeeper_intercept"
    ELSE "none"

\* ms.ps(t, n).<field>[key] += 1
PlayerIncTop(ms, t, n, field, key) ==
    [ps(ms, t, n) EXCEPT !.player[<<t, n>>][field] = Inc(@, key, 1)]

\* ms.ps(t, n).goalkeeper_stats.<field>[key] += 1
KeeperInc(ms, t, n, field, key) ==
    [ps(ms, t, n) EXCEPT !.player[<<t, n>>].goalkeeper_stats[field] = Inc(@, key, 1)]

\* def_team = away if atk_team == home else home
DefTeamName(ms, atk_team) ==
    IF atk_team = ms.home_team.name THEN ms.away_team.name ELSE ms.home_team.name

\* duel branches that book usage and the winner's success, and no attempt
agg_duel_without_attempts(st, minute, rest, skills_used, off, def, event_type, remember) ==
    LET outcome == rest[1]
        initiator == rest[4]
        opponent == rest[5]
        type == rest[6]
        atk_team == rest[7]
        def_team == DefTeamName(st.ms, atk_team)
        m5 == TeamUsage(TeamUsage(st.ms, atk_team, skills_used, event_type),
                        def_team, skills_used, event_type)
        m6 == PlayerUsage(PlayerUsage(m5, atk_team, initiator, skills_used, event_type),
                          def_team, opponent, skills_used, event_type)
    IN  IF outcome = "success"
        THEN [st EXCEPT
                 !.ms = PlayerInc(TeamInc(m6, atk_team, off, "success_by_type", type),
                                  atk_team, initiator, off, "success_by_type", type),
                 !.last_creation =
                     IF remember
                     THEN (<<minute, atk_team>> :> [creator |-> initiator, chance_type |-> type]) @@ @
                     ELSE @]
        ELSE [st EXCEPT
                 !.ms = PlayerInc(TeamInc(m6, def_team, def, "success_by_type", type),
                                  def_team, opponent, def, "success_by_type", type)]

\* a duel whose failure is nobody's success
agg_duel_attack_only(st, minute, rest, skills_used, off, def, event_type, remember) ==
    LET outcome == rest[1]
        initiator == rest[4]
        opponent == rest[5]
        type == rest[6]
        atk_team == rest[7]
        def_team == DefTeamName(st.ms, atk_team)
        m1 == TeamInc(st.ms, atk_team, off, "attempt_by_type", type)
        m2 == TeamInc(m1, def_team, def, "attempt_by_type", type)
        m3 == PlayerInc(m2, atk_team, initiator, off, "attempt_by_type", type)
        m4 == PlayerInc(m3, def_team, opponent, def, "attempt_by_type", type)
        m5 == TeamUsage(TeamUsage(m4, atk_team, skills_used, event_type),
                        def_team, skills_used, event_type)
        m6 == PlayerUsage(PlayerUsage(m5, atk_team, initiator, skills_used, event_type),
                          def_team, opponent, skills_used, event_type)
    IN  IF outcome = "success"
        THEN [st EXCEPT
                 !.ms = PlayerInc(TeamInc(m6, atk_team, off, "success_by_type", type),
                                  atk_team, initiator, off, "success_by_type", type),
                 !.last_creation =
                     IF remember
                     THEN (<<minute, atk_team>> :> [creator |-> initiator, chance_type |-> type]) @@ @
                     ELSE @]
        ELSE [st EXCEPT !.ms = m6]

\* the duel branches "creation" and "finish": attempts for both sides, usage for
\* both sides, then the success of the winner
agg_duel(st, minute, rest, skills_used, off, def, event_type, remember) ==
    LET outcome == rest[1]
        initiator == rest[4]
        opponent == rest[5]
        type == rest[6]
        atk_team == rest[7]
        def_team == DefTeamName(st.ms, atk_team)
        m1 == TeamInc(st.ms, atk_team, off, "attempt_by_type", type)
        m2 == TeamInc(m1, def_team, def, "attempt_by_type", type)
        m3 == PlayerInc(m2, atk_team, initiator, off, "attempt_by_type", type)
        m4 == PlayerInc(m3, def_team, opponent, def, "attempt_by_type", type)
        m5 == TeamUsage(TeamUsage(m4, atk_team, skills_used, event_type),
                        def_team, skills_used, event_type)
        m6 == PlayerUsage(PlayerUsage(m5, atk_team, initiator, skills_used, event_type),
                          def_team, opponent, skills_used, event_type)
    IN  IF outcome = "success"
        THEN [st EXCEPT
                 !.ms = PlayerInc(TeamInc(m6, atk_team, off, "success_by_type", type),
                                  atk_team, initiator, off, "success_by_type", type),
                 !.last_creation =
                     IF remember
                     THEN (<<minute, atk_team>> :> [creator |-> initiator, chance_type |-> type]) @@ @
                     ELSE @]
        ELSE [st EXCEPT
                 !.ms = PlayerInc(TeamInc(m6, def_team, def, "success_by_type", type),
                                  def_team, opponent, def, "success_by_type", type)]

agg_creation(st, minute, rest, skills_used) ==
    agg_duel(st, minute, rest, skills_used, "creator_off", "creator_def", rest[6], TRUE)

agg_finish(st, minute, rest, skills_used) ==
    agg_duel(st, minute, rest, skills_used, "finisher_off", "finisher_def",
             rest[6] \o "_finisher", FALSE)

\* a shot_quality branch that books nothing
agg_shot_quality_skipped(st, minute, rest, skills_used) == st

\* "shot_quality", of section "result" and of section "corner" alike
agg_shot_quality(st, minute, rest, skills_used) ==
    LET outcome == rest[1]
        finisher == rest[3]
        finish_type == rest[5]
        atk_team == rest[6]
        def_team == DefTeamName(st.ms, atk_team)
        def_team_obj == IF atk_team = st.ms.home_team.name THEN st.ms.away_team
                        ELSE st.ms.home_team
        keeper == def_goalkeeper(def_team_obj)
        m1 == TeamInc(st.ms, atk_team, "shooting", "shots_by_type", finish_type)
        m2 == PlayerInc(m1, atk_team, finisher, "shooting", "shots_by_type", finish_type)
        m3 == IF keeper = None THEN m2
              ELSE KeeperInc(m2, def_team, keeper, "shots_conceded_by_type", finish_type)
        m4 == IF keeper # None /\ outcome = "on_target"
              THEN KeeperInc(m3, def_team, keeper, "shots_on_target_by_type", finish_type)
              ELSE m3
        m5 == PlayerUsage(TeamUsage(m4, atk_team, skills_used, finish_type),
                          atk_team, finisher, skills_used, finish_type)
    IN  IF outcome = "on_target"
        THEN [st EXCEPT
                 !.ms = PlayerInc(TeamInc(m5, atk_team, "shooting", "shots_on_by_type", finish_type),
                                  atk_team, finisher, "shooting", "shots_on_by_type", finish_type)]
        ELSE [st EXCEPT !.ms = m5]

\* goals_by_type of the team and of the scorer
BookGoal(ms, atk_team, scorer, finish_type) ==
    PlayerInc(TeamInc(ms, atk_team, "shooting", "goals_by_type", finish_type),
              atk_team, scorer, "shooting", "goals_by_type", finish_type)

\* a save branch that books the goal and credits nobody
agg_save_no_assist(st, minute, rest, skills_used) ==
    LET outcome == rest[1]
        finisher == rest[3]
        goalkeeper == rest[4]
        finish_type == rest[5]
        atk_team == rest[6]
        def_team == DefTeamName(st.ms, atk_team)
        event_type == finish_type \o "_save"
        m1 == IF outcome = "saved"
              THEN KeeperInc(st.ms, def_team, goalkeeper, "saves_by_type", finish_type)
              ELSE st.ms
        m2 == TeamUsage(TeamUsage(m1, atk_team, skills_used, event_type),
                        def_team, skills_used, event_type)
        m3 == PlayerUsage(PlayerUsage(m2, atk_team, finisher, skills_used, event_type),
                          def_team, goalkeeper, skills_used, event_type)
    IN  IF outcome # "goal" THEN [st EXCEPT !.ms = m3]
        ELSE [st EXCEPT !.ms = BookGoal(m3, atk_team, finisher, finish_type)]

\* the save branch without the goalkeeper's save counter
agg_save_goals_only(st, minute, rest, skills_used) ==
    LET outcome == rest[1]
        finisher == rest[3]
        goalkeeper == rest[4]
        finish_type == rest[5]
        atk_team == rest[6]
        def_team == DefTeamName(st.ms, atk_team)
        event_type == finish_type \o "_save"
        k == <<minute, atk_team>>
        m2 == TeamUsage(TeamUsage(st.ms, atk_team, skills_used, event_type),
                        def_team, skills_used, event_type)
        m3 == PlayerUsage(PlayerUsage(m2, atk_team, finisher, skills_used, event_type),
                          def_team, goalkeeper, skills_used, event_type)
        m4 == BookGoal(m3, atk_team, finisher, finish_type)
    IN  IF outcome # "goal" THEN [st EXCEPT !.ms = m3]
        ELSE IF k \in DOMAIN st.last_creation /\ st.last_creation[k].creator # finisher
        THEN [st EXCEPT !.ms = PlayerIncTop(m4, atk_team, st.last_creation[k].creator,
                                            "assists_by_chance_type",
                                            st.last_creation[k].chance_type)]
        ELSE [st EXCEPT !.ms = m4]

agg_save(st, minute, rest, skills_used) ==
    LET outcome == rest[1]
        finisher == rest[3]
        goalkeeper == rest[4]
        finish_type == rest[5]
        atk_team == rest[6]
        def_team == DefTeamName(st.ms, atk_team)
        event_type == finish_type \o "_save"
        k == <<minute, atk_team>>
        m1 == IF outcome = "saved"
              THEN KeeperInc(st.ms, def_team, goalkeeper, "saves_by_type", finish_type)
              ELSE st.ms
        m2 == TeamUsage(TeamUsage(m1, atk_team, skills_used, event_type),
                        def_team, skills_used, event_type)
        m3 == PlayerUsage(PlayerUsage(m2, atk_team, finisher, skills_used, event_type),
                          def_team, goalkeeper, skills_used, event_type)
        m4 == BookGoal(m3, atk_team, finisher, finish_type)
    IN  IF outcome # "goal" THEN [st EXCEPT !.ms = m3]
        ELSE IF k \in DOMAIN st.last_creation /\ st.last_creation[k].creator # finisher
        THEN [st EXCEPT !.ms = PlayerIncTop(m4, atk_team, st.last_creation[k].creator,
                                            "assists_by_chance_type",
                                            st.last_creation[k].chance_type)]
        ELSE [st EXCEPT !.ms = m4]

agg_goalkeeper_intercept(st, minute, rest, skills_used) ==
    LET outcome == rest[1]
        finisher == rest[3]
        goalkeeper == rest[4]
        chance_type == rest[5]
        atk_team == rest[6]
        def_team == DefTeamName(st.ms, atk_team)
        event_type == chance_type \o "_intercept"
        m1 == KeeperInc(st.ms, def_team, goalkeeper, "intercept_attempts_by_type", chance_type)
        m2 == IF outcome = "success"
              THEN KeeperInc(m1, def_team, goalkeeper, "intercept_successes_by_type", chance_type)
              ELSE m1
        m3 == TeamUsage(TeamUsage(m2, atk_team, skills_used, event_type),
                        def_team, skills_used, event_type)
    IN  [st EXCEPT !.ms = PlayerUsage(PlayerUsage(m3, atk_team, finisher, skills_used, event_type),
                                      def_team, goalkeeper, skills_used, event_type)]

\* "penalty" and "free_kick": the shot, on target only for outcome "on_target"
agg_set_piece(st, minute, rest, skills_used, finish_type) ==
    LET outcome == rest[1]
        taker == rest[3]
        goalkeeper == rest[4]
        atk_team == rest[5]
        def_team == DefTeamName(st.ms, atk_team)
        m1 == TeamInc(st.ms, atk_team, "shooting", "shots_by_type", finish_type)
        m2 == PlayerInc(m1, atk_team, taker, "shooting", "shots_by_type", finish_type)
        m3 == KeeperInc(m2, def_team, goalkeeper, "shots_conceded_by_type", finish_type)
        m4 == IF outcome = "on_target"
              THEN KeeperInc(
                       PlayerInc(TeamInc(m3, atk_team, "shooting", "shots_on_by_type", finish_type),
                                 atk_team, taker, "shooting", "shots_on_by_type", finish_type),
                       def_team, goalkeeper, "shots_on_target_by_type", finish_type)
              ELSE m3
    IN  [st EXCEPT !.ms = PlayerUsage(TeamUsage(m4, atk_team, skills_used, finish_type),
                                      atk_team, taker, skills_used, finish_type)]

\* "penalty_save" and "free_kick_save": the goal or the save
agg_set_piece_save(st, minute, rest, skills_used, finish_type) ==
    LET outcome == rest[1]
        taker == rest[3]
        goalkeeper == rest[4]
        atk_team == rest[5]
        def_team == DefTeamName(st.ms, atk_team)
        event_type == finish_type \o "_save"
        m1 == ps(st.ms, def_team, goalkeeper)
        m2 == IF outcome = "goal" THEN BookGoal(m1, atk_team, taker, finish_type)
              ELSE IF outcome = "saved"
              THEN KeeperInc(m1, def_team, goalkeeper, "saves_by_type", finish_type)
              ELSE m1
    IN  [st EXCEPT !.ms = PlayerUsage(TeamUsage(m2, def_team, skills_used, event_type),
                                      def_team, goalkeeper, skills_used, event_type)]

agg_corner_gk_intercept(st, minute, rest, skills_used) ==
    LET outcome == rest[1]
        creator == rest[4]
        goalkeeper == rest[5]
        chance_type == rest[6]
        atk_team == rest[7]
        def_team == DefTeamName(st.ms, atk_team)
        m1 == PlayerAdd(st.ms, atk_team, creator, "corners_taken")
        m2 == KeeperAdd(m1, def_team, goalkeeper, "corner_intercepts_attempted")
        m3 == TeamUsage(m2, atk_team, skills_used, chance_type)
        m4 == PlayerUsage(PlayerUsage(m3, atk_team, creator, skills_used, chance_type),
                          def_team, goalkeeper, skills_used, chance_type)
    IN  IF outcome = "intercepted"
        THEN [st EXCEPT !.ms = KeeperAdd(m4, def_team, goalkeeper, "corner_intercepts_successful")]
        ELSE [st EXCEPT !.ms = m4]

agg_corner_delivery(st, minute, rest, skills_used) ==
    [st EXCEPT !.ms = PlayerAdd(@, rest[7], rest[4], "corners_successful"),
               !.corner_creator = (<<minute, rest[7]>> :> rest[4]) @@ @]

agg_corner_finish(st, minute, rest, skills_used) ==
    LET outcome == rest[1]
        finisher == rest[4]
        atk_team == rest[7]
        m1 == PlayerAdd(st.ms, atk_team, finisher, "corner_shots")
        m2 == PlayerUsage(TeamUsage(m1, atk_team, skills_used, "Corner_finisher"),
                          atk_team, finisher, skills_used, "Corner_finisher")
    IN  IF outcome = "success"
        THEN [st EXCEPT !.ms = PlayerAdd(m2, atk_team, finisher, "corner_shots_success")]
        ELSE [st EXCEPT !.ms = m2]

agg_corner_save(st, minute, rest, skills_used) ==
    LET outcome == rest[1]
        finisher == rest[3]
        goalkeeper == rest[4]
        finish_type == rest[5]
        atk_team == rest[6]
        def_team == DefTeamName(st.ms, atk_team)
        event_type == finish_type \o "_save"
        k == <<minute, atk_team>>
        m1 == IF outcome = "saved"
              THEN KeeperInc(st.ms, def_team, goalkeeper, "saves_by_type", finish_type)
              ELSE st.ms
        m2 == IF outcome = "goal"
              THEN PlayerAdd(BookGoal(m1, atk_team, finisher, finish_type),
                             atk_team, finisher, "corner_goals")
              ELSE m1
        m3 == IF outcome = "goal" /\ k \in DOMAIN st.corner_creator
                 /\ st.corner_creator[k] # "" /\ st.corner_creator[k] # finisher
              THEN PlayerIncTop(m2, atk_team, st.corner_creator[k],
                                "assists_by_chance_type", "Corner")
              ELSE m2
    IN  [st EXCEPT !.ms = PlayerUsage(TeamUsage(m3, atk_team, skills_used, event_type),
                                      atk_team, finisher, skills_used, event_type)]

agg_corner_finish_outcome(st, minute, rest, skills_used) ==
    [st EXCEPT !.ms = PlayerUsage(TeamUsage(@, rest[6], skills_used, rest[5]),
                                  rest[6], rest[3], skills_used, rest[5])]

\* how many values the branch unpacks from rest
Arity(branch) ==
    IF branch \in {"creation", "finish", "corner_gk_intercept", "corner_delivery", "corner_finish"}
    THEN 7
    ELSE IF branch \in {"penalty", "penalty_save", "free_kick", "free_kick_save"} THEN 5
    ELSE IF branch \in {"none", "penalty_miss", "free_kick_miss"} THEN 0
    ELSE 6

\* one iteration of the loop over sim.log; error is set when the unpacking raises
agg_entry(st, entry) ==
    LET minute == entry[1]
        rest == Rest(entry)
        skills_used == SkillsUsed(entry)
        branch == Branch(entry[2], entry[3])
    IN  IF Len(rest) < Arity(branch) THEN [st EXCEPT !.error = "ValueError"]
        ELSE IF branch = "creation" THEN agg_creation(st, minute, rest, skills_used)
        ELSE IF branch = "finish" THEN agg_finish(st, minute, rest, skills_used)
        ELSE IF branch \in {"shot_quality", "corner_shot_quality"}
             THEN agg_shot_quality(st, minute, rest, skills_used)
        ELSE IF branch = "save" THEN agg_save(st, minute, rest, skills_used)
        ELSE IF branch = "corner_gk_intercept"
             THEN agg_corner_gk_intercept(st, minute, rest, skills_used)
        ELSE IF branch = "corner_delivery" THEN agg_corner_delivery(st, minute, rest, skills_used)
        ELSE IF branch = "corner_finish" THEN agg_corner_finish(st, minute, rest, skills_used)
        ELSE IF branch = "corner_save" THEN agg_corner_save(st, minute, rest, skills_used)
        ELSE IF branch = "corner_finish_outcome"
             THEN agg_corner_finish_outcome(st, minute, rest, skills_used)
        ELSE IF branch = "penalty" THEN agg_set_piece(st, minute, rest, skills_used, "Penalty")
        ELSE IF branch = "penalty_save"
             THEN agg_set_piece_save(st, minute, rest, skills_used, "Penalty")
        ELSE IF branch = "free_kick" THEN agg_set_piece(st, minute, rest, skills_used, "Freekick")
        ELSE IF branch = "free_kick_save"
             THEN agg_set_piece_save(st, minute, rest, skills_used, "Freekick")
        ELSE IF branch = "goalkeeper_intercept"
             THEN agg_goalkeeper_intercept(st, minute, rest, skills_used)
        ELSE st

RECURSIVE agg_log(_, _, _)
agg_log(st, log, i) ==
    IF i > Len(log) \/ st.error # None THEN st
    ELSE agg_log(agg_entry(st, log[i]), log, i + 1)

\* the loop of aggregate_match_log_to_stats_v2 with its locals
agg_state(home_team, away_team, log) ==
    agg_log([ms |-> MatchStatsV2(home_team, away_team), error |-> None,
             last_creation |-> EmptyCounter, corner_creator |-> EmptyCounter], log, 1)

aggregate_match_log_to_stats_v2(s) == agg_state(s.home_team, s.away_team, s.log).ms

(***************************************************************************)
(* statistics.py: merge                                                    *)
(***************************************************************************)
merge_split(self, other) ==
    [f \in DOMAIN self |-> Update(self[f], other[f])]

merge_goalkeeper_stats(self, other) ==
    [f \in DOMAIN self |->
        IF f \in {"corner_intercepts_attempted", "corner_intercepts_successful"}
        THEN self[f] + other[f] ELSE Update(self[f], other[f])]

merge_skill_usage(self, other) ==
    [usage_by_event |-> Update(self.usage_by_event, other.usage_by_event),
     total_usage |-> Update(self.total_usage, other.total_usage)]

\* the sum left by "total += weight" over the weights, in order
RECURSIVE FloatSum(_, _)
FloatSum(total, weights) ==
    IF weights = <<>> THEN total
    ELSE FloatSum(FloatAdd(total, weights[1][2]), Tail(weights))

\* WeightedSkillUsage.merge: each weight of other is added to the pair's sum
\* and to the skill's total, in the order other iterates
merge_weighted_skill_usage(self, other) ==
    LET mine == self.usage_by_event
        theirs == other.usage_by_event
    IN  [usage_by_event |->
             [i \in DOMAIN mine |->
                 IF HasKey(theirs, mine[i][1])
                 THEN <<mine[i][1], FloatAdd(mine[i][2], Lookup(theirs, mine[i][1]))>>
                 ELSE mine[i]]
             \o SelectSeq(theirs, LAMBDA item : ~HasKey(mine, item[1])),
         total_usage |->
             [skill \in DOMAIN self.total_usage \cup {theirs[i][1][1] : i \in DOMAIN theirs} |->
                 FloatSum(FloatGet(self.total_usage, skill),
                          SelectSeq(theirs, LAMBDA item : item[1][1] = skill))]]

merge_team(self, other) ==
    [f \in DOMAIN self |->
        IF f = "name" THEN self[f]
        ELSE IF f \in {"result_frequency", "score_frequency"} THEN Update(self[f], other[f])
        ELSE IF f = "skill_usage" THEN merge_skill_usage(self[f], other[f])
        ELSE IF f = "weighted_skill_usage"
             THEN merge_weighted_skill_usage(self[f], other[f])
        ELSE merge_split(self[f], other[f])]

merge_player(self, other) ==
    [f \in DOMAIN self |->
        IF f \in {"name", "team", "position"} THEN self[f]
        ELSE IF f = "assists_by_chance_type" THEN Update(self[f], other[f])
        ELSE IF f = "skill_usage" THEN merge_skill_usage(self[f], other[f])
        ELSE IF f = "weighted_skill_usage"
             THEN merge_weighted_skill_usage(self[f], other[f])
        ELSE IF f = "goalkeeper_stats" THEN merge_goalkeeper_stats(self[f], other[f])
        ELSE IF f \in {"corners_taken", "corners_successful", "corner_shots",
                       "corner_shots_success", "corner_goals"} THEN self[f] + other[f]
        ELSE merge_split(self[f], other[f])]

\* a merge that takes over the ledgers of the players self knows only
merge_known_players(self, other) ==
    [self EXCEPT
        !.team = [t \in DOMAIN self.team |-> merge_team(self.team[t], other.team[t])],
        !.player = [key \in DOMAIN self.player |->
                       IF key \in DOMAIN other.player
                       THEN merge_player(self.player[key], other.player[key])
                       ELSE self.player[key]]]

\* MatchStatsV2.merge
merge(self, other) ==
    [self EXCEPT
        !.team = [t \in DOMAIN self.team |-> merge_team(self.team[t], other.team[t])],
        !.player = [key \in DOMAIN self.player \cup DOMAIN other.player |->
                       IF key \in DOMAIN other.player
                       THEN merge_player(ps(self, key[1], key[2]).player[key], other.player[key])
                       ELSE self.player[key]]]

(***************************************************************************)
(* Rosters: the two of test_match_engine.py, a roster without centre       *)
(* backs, and rosters that Team must refuse                                *)
(***************************************************************************)
Attrs(names, lvl) == [a \in Range(names) |-> lvl]

Roster(prefix, layout, lvl) ==
    [i \in DOMAIN layout |->
        IF layout[i] = "GK"
        THEN Player(prefix \o ToString(i), "GK", Attrs(GOALKEEPER_ATTRS, lvl), TRUE)
        ELSE Player(prefix \o ToString(i), layout[i], Attrs(OUTFIELD_ATTRS, lvl), FALSE)]

Layout442 == <<"GK", "DL", "DC", "DC", "DR", "ML", "MC", "MC", "MR", "FC", "FC">>

\* a 4-4-2 against a 5-2-3, and a 4-4-2 against a side without a DC
ValidPairs ==
    {<<Roster("H", Layout442, 10),
       Roster("A", <<"GK", "DC", "DC", "DC", "DMR", "DML", "MC", "MC", "FC", "FC", "FC">>, 5)>>,
     <<Roster("H", Layout442, 5),
       Roster("A", <<"GK", "DR", "DMC", "DMC", "MC", "MC", "MC", "OMC", "FC", "FC", "FC">>, 5)>>}

\* a roster of ten, of twelve, without a goalkeeper, with two goalkeepers,
\* and with a player lacking a required attribute
InvalidRosters ==
    {SubSeq(Roster("A", Layout442, 5), 1, 10),
     Append(Roster("A", Layout442, 5), Player("A12", "FC", Attrs(OUTFIELD_ATTRS, 5), FALSE)),
     [Roster("A", Layout442, 5) EXCEPT ![1].is_goalkeeper = FALSE,
                                       ![1].attributes = Attrs(OUTFIELD_ATTRS, 5)],
     [Roster("A", Layout442, 5) EXCEPT ![2].is_goalkeeper = TRUE,
                                       ![2].attributes = Attrs(GOALKEEPER_ATTRS, 5)],
     [Roster("A", Layout442, 5) EXCEPT
         ![11].attributes = [a \in Range(OUTFIELD_ATTRS) \ {"Finishing"} |-> 5]]}

InvalidPairs ==
    {<<Roster("H", Layout442, 10), bad>> : bad \in InvalidRosters}
    \cup {<<bad, Roster("H", Layout442, 10)>> : bad \in InvalidRosters}

(***************************************************************************)
(* formation_validator.py and api/test_bench.py: the batch of matches      *)
(***************************************************************************)
\* validate_formation: TRUE when no rule adds an error
validate_formation(team) ==
    LET n(pos) == CountAt(team, pos)
        central == n("DMC") + n("MC") + n("OMC")
    IN  /\ n("GK") = 1
        /\ n("DC") >= 1 /\ n("DC") <= 3
        /\ central >= 1 /\ central <= 3
        /\ n("DL") + n("DML") + n("ML") + n("OML") >= 1
        /\ n("DR") + n("DMR") + n("MR") + n("OMR") >= 1
        /\ ~(n("DL") > 0 /\ n("DML") > 0)
        /\ ~(n("DR") > 0 /\ n("DMR") > 0)
        /\ ~(n("ML") > 0 /\ n("OML") > 0)
        /\ ~(n("MR") > 0 /\ n("OMR") > 0)
        /\ \A pos \in {"DL", "DR", "DML", "DMR", "ML", "MR", "OML", "OMR"} : n(pos) <= 1

\* sum(counter.values()), the properties shots, shots_on, goals, ...
RECURSIVE Total(_)
Total(c) ==
    IF DOMAIN c = {} THEN 0
    ELSE LET k == CHOOSE x \in DOMAIN c : TRUE
         IN  c[k] + Total([x \in DOMAIN c \ {k} |-> c[x]])

\* the properties attempts and successes of OffDefSplit
attempts(split) == Total(split.attempt_by_type)
successes(split) == Total(split.success_by_type)

\* batch_simulate: the result bookkeeping on the stats of one match
book_result(stats) ==
    LET home == stats.home_team.name
        away == stats.away_team.name
        home_score == Total(stats.team[home].shooting.goals_by_type)
        away_score == Total(stats.team[away].shooting.goals_by_type)
        home_result == IF home_score > away_score THEN "win"
                       ELSE IF away_score > home_score THEN "loss" ELSE "draw"
        away_result == IF home_score > away_score THEN "loss"
                       ELSE IF away_score > home_score THEN "win" ELSE "draw"
        booked == [stats EXCEPT !.team[home].result_frequency = Inc(@, home_result, 1)]
    IN  [booked EXCEPT !.team[away].result_frequency = Inc(@, away_result, 1)]

\* batch_simulate: aggregated = all_stats[0], then merge of each of the others
RECURSIVE merge_all(_, _, _)
merge_all(aggregated, all_stats, i) ==
    IF i > Len(all_stats) THEN aggregated
    ELSE merge_all(merge(aggregated, all_stats[i]), all_stats, i + 1)

\* dict equality looks at keys and values, never at the insertion order
AsDict(items) == [k \in {items[i][1] : i \in DOMAIN items} |-> Lookup(items, k)]

\* the fields of a MatchStatsV2 that a field-by-field comparison reads
Fields(ms) ==
    [team |-> [t \in DOMAIN ms.team |->
                  [ms.team[t] EXCEPT !.weighted_skill_usage.usage_by_event = AsDict(@)]],
     player |-> [k \in DOMAIN ms.player |->
                    [ms.player[k] EXCEPT !.weighted_skill_usage.usage_by_event = AsDict(@)]]]

\* the maps handed to weighted_choice on its own: up to three keys, weights 0, 1 and 3
WeightMaps ==
    LET Over(weights) ==
            {<<>>}
            \cup {<<<<k, w>>>> : k \in {"A", "B", "C"}, w \in weights}
            \cup {<<<<ks[1], w1>>, <<ks[2], w2>>>> :
                      ks \in {<<"A", "B">>, <<"B", "A">>, <<"A", "C">>, <<"B", "C">>},
                      w1 \in weights, w2 \in weights}
            \cup {<<<<"A", w1>>, <<"B", w2>>, <<"C", w3>>>> :
                      w1 \in weights, w2 \in weights, w3 \in weights}
    IN  Over({0, 1, 3})

(***************************************************************************)
(* The state machine                                                       *)
(***************************************************************************)
\* what the caller of the simulator holds: the seed it gave to the random
\* source, the logs of earlier runs from that seed, and the per-match stats
\* and their merge in batch_simulate; with two simulators in one process, the
\* instance that is not running and the number of switches between the two
Bench(seed) ==
    [seed |-> seed, logs |-> <<>>, all_stats |-> <<>>, aggregated |-> None,
     other |-> None, switches |-> 0]

Init ==
    \/ \E seed \in 1 .. MaxSeed, pair \in ValidPairs, minutes \in 1 .. MaxMinutes :
          /\ rng = RngSeed(seed)
          /\ sim = Request(pair[1], pair[2], minutes)
          /\ bench = Bench(RngSeed(seed))
    \/ \E pair \in InvalidPairs :
          /\ rng = RngSeed(1)
          /\ sim = Request(pair[1], pair[2], 1)
          /\ bench = Bench(RngSeed(1))

\* Team(...) for both rosters and MatchSimulator(...): validation, then the matrices
ConstructTeams ==
    /\ sim.pc = "construct"
    /\ \E o \in construct(sim, rng) :
          /\ sim' = o.sim
          /\ rng' = o.rng
    /\ UNCHANGED bench

\* run(): the event gate, the attacking side, creator, creation defender, chance type and the creation evaluation
RunCreation ==
    /\ sim.pc = "run"
    /\ \E o \in run_creation(sim, rng) :
          /\ sim' = o.sim
          /\ rng' = o.rng
    /\ UNCHANGED bench

\* run(): the counter-attack draw after a failed creation, or the set-piece draws after a successful one
PostCreation ==
    /\ sim.pc = "post_creation"
    /\ \E o \in post_creation(sim, rng) :
          /\ sim' = o.sim
          /\ rng' = o.rng
    /\ UNCHANGED bench

\* run(): finisher selection and the set-piece draws during finishing
SelectFinisher ==
    /\ sim.pc = "finisher"
    /\ \E o \in finisher_step(sim, rng) :
          /\ sim' = o.sim
          /\ rng' = o.rng
    /\ UNCHANGED bench

\* run(): finish-defender and finish-type selection
SelectFinishDefender ==
    /\ sim.pc = "finish_defender"
    /\ \E o \in finish_defender_step(sim, sim.main, "main", "finish", rng) :
          /\ sim' = o.sim
          /\ rng' = o.rng
    /\ UNCHANGED bench

\* run(): goalkeeper interception, finish evaluation and the counter-attack draw
Finish ==
    /\ sim.pc = "finish"
    /\ \E o \in main_finish(sim, rng) :
          /\ sim' = o.sim
          /\ rng' = o.rng
    /\ UNCHANGED bench

\* run(): shot quality, save, and the corner draw
ShotAndSave ==
    /\ sim.pc = "shot"
    /\ \E o \in {shot_eval(sim, sim.main, rng)} :
          /\ sim' = o.sim
          /\ rng' = o.rng
    /\ UNCHANGED bench

\* _handle_counter_attack: chance type, defender and creation evaluation
CounterCreation ==
    /\ sim.pc = "counter"
    /\ \E o \in counter_creation(sim, rng) :
          /\ sim' = o.sim
          /\ rng' = o.rng
    /\ UNCHANGED bench

\* _handle_counter_attack: finisher selection
CounterFinisher ==
    /\ sim.pc = "counter_finisher"
    /\ \E o \in counter_finisher(sim, rng) :
          /\ sim' = o.sim
          /\ rng' = o.rng
    /\ UNCHANGED bench

\* _handle_counter_attack: finish-defender and finish-type selection
CounterFinishDefender ==
    /\ sim.pc = "counter_finish_defender"
    /\ \E o \in finish_defender_step(sim, sim.counter, "counter", "counter_finish", rng) :
          /\ sim' = o.sim
          /\ rng' = o.rng
    /\ UNCHANGED bench

\* _handle_counter_attack: interception and finish evaluation
CounterFinish ==
    /\ sim.pc = "counter_finish"
    /\ \E o \in counter_finish(sim, rng) :
          /\ sim' = o.sim
          /\ rng' = o.rng
    /\ UNCHANGED bench

\* _handle_counter_attack: shot quality, save, and the corner draw
CounterShot ==
    /\ sim.pc = "counter_shot"
    /\ \E o \in {shot_eval(sim, sim.counter, rng)} :
          /\ sim' = o.sim
          /\ rng' = o.rng
    /\ UNCHANGED bench

\* handle_corner: taker, defender and delivery evaluation
CornerCreation ==
    /\ sim.pc = "corner"
    /\ \E o \in corner_creation(sim, rng) :
          /\ sim' = o.sim
          /\ rng' = o.rng
    /\ UNCHANGED bench

\* handle_corner: the header duel between the top-5 aerial candidates
CornerFinish ==
    /\ sim.pc = "corner_finish"
    /\ \E o \in corner_finish(sim, rng) :
          /\ sim' = o.sim
          /\ rng' = o.rng
    /\ UNCHANGED bench

\* handle_corner: shot quality and save
CornerShot ==
    /\ sim.pc = "corner_shot"
    /\ \E o \in corner_shot(sim, rng) :
          /\ sim' = o.sim
          /\ rng' = o.rng
    /\ UNCHANGED bench

Next ==
    \/ ConstructTeams
    \/ RunCreation
    \/ PostCreation
    \/ SelectFinisher
    \/ SelectFinishDefender
    \/ Finish
    \/ ShotAndSave
    \/ CounterCreation
    \/ CounterFinisher
    \/ CounterFinishDefender
    \/ CounterFinish
    \/ CounterShot
    \/ CornerCreation
    \/ CornerFinish
    \/ CornerShot

Spec == Init /\ [][Next]_vars

\* batch_simulate, one iteration of its loop after simulate_match has returned:
\* the stats of the match and its result, then the next simulate_match
BatchIteration ==
    /\ sim.pc = "done"
    /\ Len(bench.all_stats) < MaxMatches
    /\ validate_formation(sim.home_team)
    /\ validate_formation(sim.away_team)
    /\ LET all_stats == Append(bench.all_stats,
                               book_result(aggregate_match_log_to_stats_v2(sim)))
       IN  /\ bench' = [bench EXCEPT !.all_stats = all_stats]
           /\ sim' = IF Len(all_stats) < MaxMatches
                     THEN Request(sim.home_team.players, sim.away_team.players, sim.minutes)
                     ELSE [sim EXCEPT !.pc = "collected"]
    /\ UNCHANGED rng

\* batch_simulate, after the loop: the stats of the matches merged into the first
BatchAggregate ==
    /\ sim.pc = "collected"
    /\ bench' = [bench EXCEPT !.aggregated = merge_all(bench.all_stats[1], bench.all_stats, 2)]
    /\ sim' = [sim EXCEPT !.pc = "aggregated"]
    /\ UNCHANGED rng

NextBatch == Next \/ BatchIteration \/ BatchAggregate

SpecBatch == Init /\ [][NextBatch]_vars

\* the same request simulated once more after the random source is given the same seed
Rerun ==
    /\ sim.pc \in {"done", "raised"}
    /\ bench.logs = <<>>
    /\ bench' = [bench EXCEPT !.logs = <<sim.log>>]
    /\ rng' = bench.seed
    /\ sim' = Request(sim.home_team.players, sim.away_team.players, sim.minutes)

NextReplay == Next \/ Rerun

\* the replayed requests: the seeds up to MaxReplaySeed
InitReplay == Init /\ bench.seed \in {RngSeed(seed) : seed \in 1 .. MaxReplaySeed}

SpecReplay == InitReplay /\ [][NextReplay]_vars

\* a second MatchSimulator is constructed for the same request next to a fresh
\* first one, after the random source is given the seed of the run alone
StartPair ==
    /\ sim.pc \in {"done", "raised"}
    /\ bench.logs = <<>>
    /\ bench' = [bench EXCEPT
                    !.logs = <<sim.log>>,
                    !.other = Request(sim.home_team.players, sim.away_team.players, sim.minutes)]
    /\ rng' = bench.seed
    /\ sim' = Request(sim.home_team.players, sim.away_team.players, sim.minutes)

\* the scheduler takes the running simulator off and puts the other one on;
\* the random module, global to the process, stays as the last draw left it
Switch ==
    /\ bench.logs # <<>>
    /\ bench.switches < MaxSwitches
    /\ sim' = bench.other
    /\ bench' = [bench EXCEPT !.other = sim, !.switches = @ + 1]
    /\ UNCHANGED rng

NextPair == Next \/ StartPair \/ Switch

\* the paired requests: one minute, the seeds up to MaxPairSeed
InitPair ==
    /\ Init
    /\ sim.minutes = 1
    /\ bench.seed \in {RngSeed(seed) : seed \in 1 .. MaxPairSeed}

SpecPair == InitPair /\ [][NextPair]_vars

\* the simulators of the finisher selection on its own: Home is the 4-4-2, or
\* a roster with one centre back next to nine left backs
FinisherSimulators ==
    {build_matrices(Request(home, Roster("A", Layout442, 5), 1)) :
        home \in {Roster("H", Layout442, 5),
                  Roster("H", <<"GK", "DC", "DL", "DL", "DL", "DL", "DL", "DL", "DL", "DL", "DL">>, 5)}}

\* the counter-attack draws its chance type from these, whoever the creator is
CounterChanceTypes == {"Through", "Long", "Solo"}

\* the finisher selection on its own: a simulator whose flow has a creator
\* (the goalkeeper only as the creator of a counter-attack) and a chance type
InitFinisher ==
    \E simulator \in FinisherSimulators, seed \in 1 .. MaxFinisherSeed,
       i \in 1 .. MaxCreatorIndex, chance_type \in Range(CHANCE_TYPES) :
        /\ i = 1 => chance_type \in CounterChanceTypes
        /\ rng = RngSeed(seed)
        /\ sim = [pc |-> "select_finisher", error |-> None, attempts |-> 0,
                  simulator |-> simulator,
                  frame |-> [EmptyFrame EXCEPT !.attack_home = TRUE,
                                               !.creator = simulator.home_team.players[i],
                                               !.creator_pos =
                                                   simulator.home_team.players[i].matrix_position,
                                               !.chance_type = chance_type,
                                               !.success = TRUE]]
        /\ bench = Bench(RngSeed(seed))

\* the selection with its loop counter kept; the empty choice raises
SelectFinisherAlone ==
    /\ sim.pc = "select_finisher"
    /\ LET sel == select_finisher(sim.simulator, sim.frame, rng)
       IN  /\ sim' = [sim EXCEPT !.pc = IF sel.error THEN "raised" ELSE "selected",
                                 !.error = IF sel.error THEN "IndexError" ELSE @,
                                 !.frame = [@ EXCEPT !.finisher = sel.finisher,
                                                     !.finisher_pos = sel.finisher_pos],
                                 !.attempts = sel.attempts]
           /\ rng' = sel.rng
    /\ UNCHANGED bench

NextFinisher == SelectFinisherAlone

SpecFinisher == InitFinisher /\ [][NextFinisher]_vars

\* the simulator of the finish-defender selection on its own: the 4-4-2
\* attacks a side of a goalkeeper and ten forwards
DefenderSimulator ==
    build_matrices(Request(Roster("H", Layout442, 5),
                           Roster("A", <<"GK", "FC", "FC", "FC", "FC", "FC", "FC", "FC", "FC",
                                         "FC", "FC">>, 5), 1))

\* the finish-defender selection on its own: a flow whose creation was
\* defended by the goalkeeper or by a forward, and whose finisher is the left
\* back (his row has weight on the forwards) or the right midfielder (his row
\* has none)
InitDefender ==
    \E seed \in 1 .. MaxDefenderSeed, i \in {2, 9}, j \in 1 .. 2 :
        /\ rng = RngSeed(seed)
        /\ sim = [pc |-> "select_finish_defender", error |-> None,
                  simulator |-> DefenderSimulator,
                  frame |-> [EmptyFrame EXCEPT
                                !.attack_home = TRUE, !.success = TRUE,
                                !.defender = DefenderSimulator.away_team.players[j],
                                !.defender_pos =
                                    DefenderSimulator.away_team.players[j].matrix_position,
                                !.finisher = DefenderSimulator.home_team.players[i],
                                !.finisher_pos =
                                    DefenderSimulator.home_team.players[i].matrix_position]]
        /\ bench = Bench(RngSeed(seed))

\* the selection of lines 554-585 with the flow's locals kept
SelectFinishDefenderAlone ==
    /\ sim.pc = "select_finish_defender"
    /\ \E fd \in select_finish_defender(DefTeam(sim.simulator, sim.frame),
                                        RowOf(FinishDefend(sim.simulator, sim.frame),
                                              sim.frame.finisher_pos),
                                        sim.frame.defender, sim.frame.defender_pos, rng) :
          /\ sim' = [sim EXCEPT !.pc = "selected", !.frame.finish_defender = fd.val]
          /\ rng' = fd.rng
    /\ UNCHANGED bench

NextDefender == SelectFinishDefenderAlone

SpecDefender == InitDefender /\ [][NextDefender]_vars

\* event types without a formula: the key the aggregator builds for a finish
\* duel, and a key that only the skill weights hold
UnknownEventTypes == {"FirstTime_finisher", "Gk_Pen"}

\* eval_event called on its own, with the default multipliers: every event
\* type, a bonus of 0, 0.5 or 1.0, and the goalkeeper or the left back of one
\* side against the goalkeeper or the left back of the other
InitEval ==
    \E pair \in ValidPairs, swap \in BOOLEAN, i \in 1 .. 2, j \in 1 .. 2,
       event_type \in DOMAIN EVENT_X_FORMULAS \cup UnknownEventTypes,
       x_bonus \in {0, 500, 1000},
       seed \in 1 .. MaxEvalSeed :
        /\ rng = RngSeed(seed)
        /\ sim = [pc |-> "eval_event", event_type |-> event_type,
                  initiator |-> IF swap THEN pair[2][i] ELSE pair[1][i],
                  defender |-> IF swap THEN pair[1][j] ELSE pair[2][j],
                  x_bonus |-> x_bonus, roll |-> Unit(RngSeed(seed)), result |-> None]
        /\ bench = Bench(RngSeed(seed))

EvalEvent ==
    /\ sim.pc = "eval_event"
    /\ LET ev == eval_event(sim.event_type, sim.initiator, sim.defender, sim.x_bonus, rng)
       IN  /\ sim' = [sim EXCEPT !.pc = "evaluated", !.result = ev]
           /\ rng' = ev.rng
    /\ UNCHANGED bench

NextEval == EvalEvent

SpecEval == InitEval /\ [][NextEval]_vars

\* weighted_choice called on its own, on each of the small maps
InitChoice ==
    \E seed \in 1 .. MaxSeed, items \in WeightMaps :
        /\ rng = RngSeed(seed)
        /\ sim = [pc |-> "weighted_choice", items_with_probs |-> items, choice |-> None]
        /\ bench = Bench(RngSeed(seed))

WeightedChoice ==
    /\ sim.pc = "weighted_choice"
    /\ LET chosen == weighted_choice(sim.items_with_probs, rng)
       IN  /\ sim' = [sim EXCEPT !.pc = "returned", !.choice = chosen.val]
           /\ rng' = chosen.rng
    /\ UNCHANGED bench

NextChoice == WeightedChoice

SpecChoice == InitChoice /\ [][NextChoice]_vars

(***************************************************************************)
(* Properties                                                              *)
(***************************************************************************)
Finished == sim.pc = "done"

Stats == aggregate_match_log_to_stats_v2(sim)

\* C1: every accepted pair of teams runs to completion: no step of the main
\* flow, of the counter-attack or of the corner raises, and run() ends only
\* after its last minute
C1_RunsToCompletion ==
    /\ sim.pc # "raised"
    /\ sim.pc = "done" => sim.minute = sim.minutes

ShootingOrdered(shooting) ==
    \A t \in DOMAIN shooting.shots_by_type \cup DOMAIN shooting.shots_on_by_type
             \cup DOMAIN shooting.goals_by_type :
        /\ Get(shooting.goals_by_type, t) <= Get(shooting.shots_on_by_type, t)
        /\ Get(shooting.shots_on_by_type, t) <= Get(shooting.shots_by_type, t)

\* C2: in the stats of a completed match, for each team and each player and
\* every finish type, goals <= shots on target <= shots
C2_ShotsOrdered ==
    Finished =>
        LET ms == Stats
        IN  /\ \A t \in DOMAIN ms.team : ShootingOrdered(ms.team[t].shooting)
            /\ \A k \in DOMAIN ms.player : ShootingOrdered(ms.player[k].shooting)

\* a completed match in which a team and a player have a goal booked
C2_Witness ==
    /\ Finished
    /\ LET ms == Stats
       IN  /\ \E t \in DOMAIN ms.team : Total(ms.team[t].shooting.goals_by_type) > 0
           /\ \E k \in DOMAIN ms.player : Total(ms.player[k].shooting.goals_by_type) > 0

NoKeeperSkills(p) ==
    \A skill \in GK_ONLY_SKILLS :
        /\ Get(p.skill_usage.total_usage, skill) = 0
        /\ \A key \in DOMAIN p.skill_usage.usage_by_event : key[1] # skill
        /\ FloatGet(p.weighted_skill_usage.total_usage, skill) = FloatZero
        /\ \A i \in DOMAIN p.weighted_skill_usage.usage_by_event :
              p.weighted_skill_usage.usage_by_event[i][1][1] # skill

\* C3: in the stats of any log, a player whose position is not GK has no
\* usage, unweighted or weighted, of any goalkeeper-only skill
C3_NoKeeperSkillsOutfield ==
    Finished =>
        LET ms == Stats
        IN  \A k \in DOMAIN ms.player :
                ms.player[k].position # "GK" => NoKeeperSkills(ms.player[k])

\* a save entry whose skills include goalkeeper-only ones, credited to a
\* finisher who is not a goalkeeper
C3_Witness ==
    /\ Finished
    /\ \E i \in DOMAIN sim.log :
          /\ sim.log[i][2] = "result" /\ sim.log[i][3] = "save"
          /\ Range(sim.log[i][10]) \cap GK_ONLY_SKILLS # {}
          /\ LET ms == Stats
                 entry == sim.log[i]
                 key == <<entry[9], entry[6]>>
             IN  /\ key \in DOMAIN ms.player
                 /\ ms.player[key].position # "GK"
                 /\ \E u \in DOMAIN ms.player[key].skill_usage.usage_by_event :
                       u[2] = entry[8] \o "_save"

\* C4: merging the stats of three matches gives the same fields in the
\* orders (A+B)+C, A+(B+C) and B+(A+C)
C4_MergeOrderFree ==
    sim.pc = "aggregated" =>
        LET A == bench.all_stats[1]
            B == bench.all_stats[2]
            C == bench.all_stats[3]
        IN  /\ Fields(merge(merge(A, B), C)) = Fields(merge(A, merge(B, C)))
            /\ Fields(merge(A, merge(B, C))) = Fields(merge(B, merge(A, C)))

\* the roster the contract accepts: eleven players, one goalkeeper, and
\* every attribute of each player's role
Acceptable(players) ==
    /\ Len(players) = 11
    /\ Cardinality({i \in DOMAIN players : players[i].is_goalkeeper}) = 1
    /\ \A i \in DOMAIN players :
          Range(IF players[i].is_goalkeeper THEN GOALKEEPER_ATTRS ELSE OUTFIELD_ATTRS)
              \subseteq DOMAIN players[i].attributes

\* C5: with a roster that is not acceptable nothing is ever built or run;
\* acceptable rosters are never rejected
C5_TeamRejection ==
    IF Acceptable(sim.home_team.players) /\ Acceptable(sim.away_team.players)
    THEN sim.pc # "rejected"
    ELSE /\ sim.pc \in {"construct", "rejected"}
         /\ sim.log = <<>>
         /\ sim.minute = 0
         /\ sim.home_creator_matrix = <<>>
         /\ sim.away_creator_matrix = <<>>

\* a roster of twelve has been refused
C5_Witness ==
    /\ sim.pc = "rejected"
    /\ sim.error = "ValueError"
    /\ Len(sim.home_team.players) = 12 \/ Len(sim.away_team.players) = 12

\* C6: weighted_choice returns none exactly when no key has a positive
\* weight, and otherwise a key of the map whose weight is positive
C6_WeightedChoice ==
    sim.pc = "returned" =>
        LET items == sim.items_with_probs
            positive == {items[i][1] : i \in {j \in DOMAIN items : items[j][2] > 0}}
        IN  /\ sim.choice = None <=> positive = {}
            /\ sim.choice # None => sim.choice \in positive
            /\ items = <<<<"A", 1>>>> => sim.choice = "A"

\* a map with a zero-weight key in front: the key behind it is returned
C6_Witness ==
    /\ sim.pc = "returned"
    /\ sim.items_with_probs = <<<<"A", 0>>, <<"B", 3>>, <<"C", 1>>>>
    /\ sim.choice = "C"

\* C7: a second run from the same seed, teams and minute count leaves the
\* same log as the first, entry for entry
C7_SameSeedSameLog ==
    (sim.pc \in {"done", "raised"} /\ bench.logs # <<>>) => sim.log = bench.logs[1]

IsCreation(entry) == entry[2] = "result" /\ entry[3] = "creation"

IsCounterAfterCreation(entry) ==
    /\ entry[2] = "special" /\ entry[3] = "counter_attack"
    /\ entry[5] = "after_creation_fail"

\* the first entry of each minute is a creation entry, and a counter-attack
\* marker "after_creation_fail" directly follows a failed creation of its minute
CreationFirst ==
    sim.pc \notin {"construct", "rejected"} =>
        \A i \in DOMAIN sim.log :
            /\ (i = 1 \/ sim.log[i - 1][1] # sim.log[i][1]) => IsCreation(sim.log[i])
            /\ IsCounterAfterCreation(sim.log[i]) =>
                  /\ i > 1
                  /\ IsCreation(sim.log[i - 1])
                  /\ sim.log[i - 1][4] = "fail"
                  /\ sim.log[i - 1][1] = sim.log[i][1]

\* the step that opens a minute either logs nothing and ends the minute, or
\* logs exactly the creation entry of the side it selected, as the first
\* entry of that minute
AbandonOrCreation ==
    RunCreation =>
        \/ /\ sim'.log = sim.log
           /\ sim'.pc \in {"run", "done"}
        \/ /\ sim'.pc = "post_creation"
           /\ Len(sim'.log) = Len(sim.log) + 1
           /\ SubSeq(sim'.log, 1, Len(sim.log)) = sim.log
           /\ IsCreation(sim'.log[Len(sim'.log)])
           /\ sim'.log[Len(sim'.log)][1] = sim.minute
           /\ sim'.log[Len(sim'.log)][10] = AtkTeam(sim', sim'.main).name
           /\ \A i \in DOMAIN sim.log : sim.log[i][1] # sim.minute

\* C8: a minute whose gate passes is either abandoned without any log entry
\* or opens with the creation entry of the selected side; the marker
\* counter_attack/after_creation_fail only follows a failed creation
C8_CreationOpensMinute == []CreationFirst /\ [][AbandonOrCreation]_vars

\* a failed creation followed by its counter-attack marker
C8_Witness ==
    \E i \in DOMAIN sim.log :
        /\ sim.pc \notin {"construct", "rejected"}
        /\ i > 1
        /\ IsCounterAfterCreation(sim.log[i])
        /\ sim.log[i - 1][4] = "fail"

\* C9: every entry the simulator logs with an evaluation result and a
\* skills_used list is taken by a branch of the aggregator, which finds the
\* values it unpacks
C9_LockStep ==
    sim.pc \notin {"construct", "rejected"} =>
        \A i \in DOMAIN sim.log :
            EndsWithList(sim.log[i]) =>
                /\ Branch(sim.log[i][2], sim.log[i][3]) # "none"
                /\ Len(Rest(sim.log[i])) >= Arity(Branch(sim.log[i][2], sim.log[i][3]))

GoalEntries(team_name) ==
    Cardinality({i \in DOMAIN sim.log :
                    /\ EndsWithList(sim.log[i])
                    /\ sim.log[i][4] = "goal"
                    /\ sim.log[i][Len(sim.log[i]) - 1] = team_name})

\* C10: after a completed match each team's goal total in the stats is the
\* number of log entries with outcome "goal" in which it attacks, penalties
\* and free kicks included
C10_GoalsMatchLog ==
    Finished =>
        LET ms == Stats
        IN  \A t \in DOMAIN ms.team :
                Total(ms.team[t].shooting.goals_by_type) = GoalEntries(t)

IsCornerCreation(entry) == entry[2] = "corner" /\ entry[3] = "creation"

\* the corner counter <field> of a player's ledger, 0 without a ledger
CornerField(ms, key, field) ==
    IF key \in DOMAIN ms.player THEN ms.player[key][field] ELSE 0

\* C11: after a completed match every corner the simulator ran is counted
\* for its taker (corners_taken, and corners_successful when the delivery
\* succeeded), and a corner goal by another finisher gives the taker an
\* assist under "Corner"
C11_CornerTakerCounted ==
    Finished =>
        LET ms == Stats
        IN  \A i \in DOMAIN sim.log :
                IsCornerCreation(sim.log[i]) =>
                    LET entry == sim.log[i]
                        taker == <<entry[10], entry[7]>>
                    IN  /\ CornerField(ms, taker, "corners_taken") >= 1
                        /\ entry[4] = "success" =>
                               CornerField(ms, taker, "corners_successful") >= 1
                        /\ \A j \in DOMAIN sim.log :
                               ( /\ j > i
                                 /\ sim.log[j][1] = entry[1]
                                 /\ sim.log[j][2] = "corner" /\ sim.log[j][3] = "save"
                                 /\ sim.log[j][4] = "goal"
                                 /\ sim.log[j][6] # entry[7] ) =>
                                   /\ taker \in DOMAIN ms.player
                                   /\ Get(ms.player[taker].assists_by_chance_type, "Corner") >= 1

IsGoalSave(entry) == entry[2] = "result" /\ entry[3] = "save" /\ entry[4] = "goal"

\* the creation record the aggregator holds for the goal entry i: the indices
\* of the last successful creation entry before i of the same minute and team
CreationFor(i) ==
    LET same == {j \in 1..(i - 1) :
                    /\ IsCreation(sim.log[j]) /\ sim.log[j][4] = "success"
                    /\ sim.log[j][1] = sim.log[i][1]
                    /\ sim.log[j][10] = sim.log[i][9]}
    IN  {j \in same : \A k \in same : k <= j}

\* the goal entries that earn the player <<team, name>> an assist under chance_type
AssistedGoals(key, chance_type) ==
    {i \in DOMAIN sim.log :
        /\ IsGoalSave(sim.log[i])
        /\ sim.log[i][9] = key[1]
        /\ \E j \in CreationFor(i) :
              /\ sim.log[j][7] = key[2]
              /\ sim.log[j][7] # sim.log[i][6]
              /\ sim.log[j][9] = chance_type}

Assists(ms, key) ==
    IF key \in DOMAIN ms.player THEN ms.player[key].assists_by_chance_type ELSE EmptyCounter

\* C12: after a completed match a player's assists under a chance type are
\* exactly the goals of result/save entries of the player's team whose
\* creation record of the same minute names the player as creator, with that
\* chance type, and another player as finisher; nothing else is an assist
C12_AssistPerGoal ==
    Finished =>
        LET ms == Stats
        IN  \A key \in DOMAIN ms.positions \cup DOMAIN ms.player :
                \A chance_type \in Range(CHANCE_TYPES) \cup DOMAIN Assists(ms, key) :
                    Get(Assists(ms, key), chance_type)
                        = Cardinality(AssistedGoals(key, chance_type))

\* a completed match with a goal whose creator, another player than the
\* finisher, holds the assist
C12_Witness ==
    /\ Finished
    /\ \E i \in DOMAIN sim.log :
          /\ IsGoalSave(sim.log[i])
          /\ \E j \in CreationFor(i) :
                /\ sim.log[j][7] # sim.log[i][6]
                /\ LET ms == Stats
                   IN  Get(Assists(ms, <<sim.log[i][9], sim.log[j][7]>>), sim.log[j][9]) = 1

\* entry i belongs to a counter-attack: the marker of its minute precedes it
InCounter(i) ==
    \E j \in 1..(i - 1) :
        /\ sim.log[j][1] = sim.log[i][1]
        /\ sim.log[j][2] = "special" /\ sim.log[j][3] = "counter_attack"

\* C13: after a completed match no assist comes from a goal of a
\* counter-attack or of a corner: every assist of a player is earned by a
\* goal of the main flow
C13_NoAssistOutsideMainFlow ==
    Finished =>
        LET ms == Stats
        IN  \A key \in DOMAIN ms.player :
                \A chance_type \in DOMAIN Assists(ms, key) :
                    Get(Assists(ms, key), chance_type)
                        = Cardinality({i \in AssistedGoals(key, chance_type) : ~InCounter(i)})

\* the minute fields of the log never decrease and lie in 1..minutes
MinuteAscending ==
    \A i \in DOMAIN sim.log :
        /\ sim.log[i][1] \in 1..sim.minutes
        /\ i > 1 => sim.log[i - 1][1] <= sim.log[i][1]

\* a step keeps every entry of the log in its place
LogExtended ==
    /\ Len(sim'.log) >= Len(sim.log)
    /\ SubSeq(sim'.log, 1, Len(sim.log)) = sim.log

\* C14: the log is append-only and minute-ascending: no step of run()
\* changes, reorders or removes an entry, successive minute fields never
\* decrease, and every minute field lies in 1..minutes
C14_AppendOnlyAscending == []MinuteAscending /\ [][LogExtended]_vars

\* a completed match whose log holds entries of more than one minute
C14_Witness ==
    /\ Finished
    /\ \E i, j \in DOMAIN sim.log : sim.log[i][1] < sim.log[j][1]

\* two simulators are in the process, the running one and the other
Paired == bench.logs # <<>>

\* C15: with two simulators interleaved in one process, a simulator that has
\* ended holds the log of the run alone from the same seed
C15_IndependentLogs ==
    Paired =>
        /\ sim.pc \in {"done", "raised"} => sim.log = bench.logs[1]
        /\ bench.other.pc \in {"done", "raised"} => bench.other.log = bench.logs[1]

\* what run() reads and is said to leave alone: the two teams with their
\* players, and the matrices cached at construction
Cached(s) ==
    <<s.home_team, s.away_team,
      s.home_creator_matrix, s.away_creator_matrix,
      s.home_finisher_matrices, s.away_finisher_matrices,
      s.home_creator_vs_away_defend, s.away_creator_vs_home_defend,
      s.home_finish_vs_away_defend, s.away_finish_vs_home_defend>>

NobodyHasPlayed ==
    \A team \in {sim.home_team, sim.away_team} :
        \A i \in DOMAIN team.players : team.players[i].minutes_played = 0

TeamsAndMatricesKept ==
    sim.pc \notin {"construct", "rejected"} => Cached(sim') = Cached(sim)

\* C16: no step of run() changes a roster, a player's position, attributes
\* or minutes_played, or a matrix cached at construction; minutes_played
\* stays at its construction-time value 0
C16_RunChangesOnlyLog == []NobodyHasPlayed /\ [][TeamsAndMatricesKept]_vars

\* a completed match with entries in its log and matrices in place
C16_Witness ==
    /\ Finished
    /\ Len(sim.log) >= 5
    /\ sim.home_finish_vs_away_defend # <<>>
    /\ sim.home_creator_matrix # <<>>

SplitNames == {"creator_off", "creator_def", "finisher_off", "finisher_def"}

\* the sum of a counter's values, counted type by type
SumByType(c) == Cardinality({tv \in (DOMAIN c) \X (1 .. 64) : tv[2] <= c[tv[1]]})

SplitConsistent(split) ==
    /\ attempts(split) = SumByType(split.attempt_by_type)
    /\ successes(split) = SumByType(split.success_by_type)
    /\ \A t \in DOMAIN split.attempt_by_type \cup DOMAIN split.success_by_type :
          Get(split.success_by_type, t) <= Get(split.attempt_by_type, t)

StatsConsistent(ms) ==
    /\ \A t \in DOMAIN ms.team : \A n \in SplitNames : SplitConsistent(ms.team[t][n])
    /\ \A k \in DOMAIN ms.player : \A n \in SplitNames : SplitConsistent(ms.player[k][n])

\* C17: in the stats of the log at every minute boundary, in the stats of
\* every collected match and in their merge, each Off/Def split of each team
\* and player has attempts and successes equal to the sums over the types,
\* and no type with more successes than attempts
C17_SplitsConsistent ==
    /\ sim.pc \in {"run", "done"} => StatsConsistent(Stats)
    /\ \A i \in DOMAIN bench.all_stats : StatsConsistent(bench.all_stats[i])
    /\ sim.pc = "aggregated" => StatsConsistent(bench.aggregated)

\* a merge of the collected matches in which Home has won some of its
\* creation attempts and lost others
C17_Witness ==
    /\ sim.pc = "aggregated"
    /\ LET split == bench.aggregated.team["Home"].creator_off
       IN  /\ successes(split) >= 1
           /\ successes(split) < attempts(split)

IsIntercept(entry) == entry[2] = "result" /\ entry[3] = "goalkeeper_intercept"

InterceptTypes == {"Long", "Through", "Crossing"}

\* the goalkeeper of the team that defends against team_name
KeeperAgainst(team_name) ==
    get_goalkeeper(IF team_name = sim.home_team.name THEN sim.away_team ELSE sim.home_team).name

\* the chance types of the creation entries that opened the flow of entry i:
\* the last creation entry before i of the same minute and team
FlowChanceType(i) ==
    LET same == {j \in 1..(i - 1) :
                    /\ IsCreation(sim.log[j])
                    /\ sim.log[j][1] = sim.log[i][1]
                    /\ sim.log[j][10] = sim.log[i][10]}
    IN  {sim.log[j][9] : j \in {k \in same : \A l \in same : l <= k}}

\* every interception entry is of a chance type with an interception check,
\* names the defending goalkeeper and, when successful, ends its minute; a
\* finish entry follows a failed interception exactly for those chance types
InterceptEntries ==
    sim.pc \notin {"construct", "rejected"} =>
        \A i \in DOMAIN sim.log :
            /\ IsIntercept(sim.log[i]) =>
                  /\ sim.log[i][8] \in InterceptTypes
                  /\ sim.log[i][7] = KeeperAgainst(sim.log[i][9])
                  /\ sim.log[i][4] = "success" =>
                        \A j \in DOMAIN sim.log : j > i => sim.log[j][1] # sim.log[i][1]
            /\ (sim.log[i][2] = "result" /\ sim.log[i][3] = "finish") =>
                  /\ FlowChanceType(i) # {}
                  /\ \A chance_type \in FlowChanceType(i) :
                        chance_type \in InterceptTypes
                            <=> /\ i > 1
                                /\ IsIntercept(sim.log[i - 1])
                                /\ sim.log[i - 1][4] = "fail"
                                /\ sim.log[i - 1][1] = sim.log[i][1]

\* the finish step of the main flow and of the counter-attack logs the
\* interception entry first exactly for the chance types Long, Through and Crossing
InterceptLogged ==
    (sim.pc \in {"finish", "counter_finish"} /\ sim'.pc # "raised") =>
        LET f == IF sim.pc = "finish" THEN sim.main ELSE sim.counter
        IN  /\ Len(sim'.log) > Len(sim.log)
            /\ f.chance_type \in InterceptTypes
                   <=> IsIntercept(sim'.log[Len(sim.log) + 1])

\* C18: in the main flow and in the counter-attack an interception entry is
\* logged exactly for the chance types Long, Through and Crossing, names the
\* defending goalkeeper, and a successful one is the last entry of its minute
C18_KeeperInterception == []InterceptEntries /\ [][InterceptLogged]_vars

\* a successful interception that ended its minute, with a later minute in the log
C18_Witness ==
    /\ Finished
    /\ \E i \in DOMAIN sim.log :
          /\ IsIntercept(sim.log[i])
          /\ sim.log[i][4] = "success"
          /\ i < Len(sim.log)

IsAwarded(entry) ==
    entry[2] = "special" /\ entry[3] \in {"penalty_awarded", "free_kick_awarded"}

\* the special_result entry of the set piece awarded by the entry awarded
IsResultOf(entry, awarded) ==
    /\ entry[2] = "special_result"
    /\ entry[3] = (IF awarded[3] = "penalty_awarded" THEN "penalty" ELSE "free_kick")
    /\ entry[1] = awarded[1]
    /\ entry[8] = awarded[4]

\* C19: an awarded set piece directly follows the successful creation entry
\* of its minute and team; its special_result entry for the same team comes
\* next, and nothing else of that minute follows, so a minute has at most one
\* set piece and no finish, shot, save, counter-attack or corner after it
C19_OneSetPiecePerMinute ==
    sim.pc \notin {"construct", "rejected", "raised"} =>
        \A i \in DOMAIN sim.log :
            IsAwarded(sim.log[i]) =>
                /\ i > 1
                /\ IsCreation(sim.log[i - 1])
                /\ sim.log[i - 1][4] = "success"
                /\ sim.log[i - 1][1] = sim.log[i][1]
                /\ sim.log[i - 1][10] = sim.log[i][4]
                /\ i < Len(sim.log)
                /\ IsResultOf(sim.log[i + 1], sim.log[i])
                /\ \A j \in DOMAIN sim.log : j > i + 1 => sim.log[j][1] # sim.log[i][1]

\* a set piece has been awarded and taken, and the match went on with the
\* next minute
C19_Witness ==
    /\ Finished
    /\ \E i \in DOMAIN sim.log :
          /\ IsAwarded(sim.log[i])
          /\ IsResultOf(sim.log[i + 1], sim.log[i])
          /\ i + 1 < Len(sim.log)

\* C20: a selection that returns gives a Solo chance to its creator without
\* a draw; for the other chance types it gives a teammate other than the
\* creator after at most 10 failed draws, or the creator after 11 failed
\* draws; the loop never counts more than 11
C20_FinisherSelection ==
    sim.pc = "selected" =>
        LET f == sim.frame
        IN  /\ sim.attempts <= 11
            /\ f.chance_type = "Solo" => f.finisher = f.creator /\ sim.attempts = 0
            /\ f.chance_type # "Solo" =>
                  \/ /\ f.finisher # f.creator
                     /\ \E i \in DOMAIN sim.simulator.home_team.players :
                           sim.simulator.home_team.players[i] = f.finisher
                     /\ f.finisher_pos = f.finisher.matrix_position
                     /\ sim.attempts <= 10
                  \/ /\ f.finisher = f.creator
                     /\ f.finisher_pos = f.creator_pos
                     /\ sim.attempts = 11
                     /\ get_players_by_position(sim.simulator.home_team, f.creator_pos)
                            = <<f.creator>>

\* the lone centre back, creator of a Long chance, ends as his own finisher
\* after eleven draws of his own position
C20_Witness ==
    /\ sim.pc = "selected"
    /\ sim.frame.chance_type = "Long"
    /\ sim.frame.creator_pos = "DC"
    /\ sim.frame.finisher = sim.frame.creator
    /\ sim.attempts = 11


\* C21: when the creation-defender is the only player of the defending team
\* at their position, the finish-defender selected for the flow is another
\* player
C21_BeatenDefenderNotRepicked ==
    sim.pc = "selected" =>
        (Len(get_players_by_position(DefTeam(sim.simulator, sim.frame),
                                     sim.frame.defender_pos)) = 1
            => sim.frame.finish_defender # sim.frame.defender)


IsFinish(entry) == entry[2] = "result" /\ entry[3] = "finish"

IsShotQuality(entry) == entry[2] = "result" /\ entry[3] = "shot_quality"

PlayerNamed(name) ==
    CHOOSE p \in Range(sim.home_team.players) \cup Range(sim.away_team.players) : p.name = name

\* the probability an evaluation of event_type between the two named players
\* logs, in ten-thousandths, under the bonus x_bonus
DuelProb(event_type, initiator, defender, x_bonus) ==
    eval_event(event_type, PlayerNamed(initiator), PlayerNamed(defender), x_bonus, 1).prob

\* the creation entries that opened the flow of the finish entry i: the last
\* creation entry before i of the same minute and team
FlowCreation(i) ==
    LET same == {j \in 1..(i - 1) :
                    /\ IsCreation(sim.log[j])
                    /\ sim.log[j][1] = sim.log[i][1]
                    /\ sim.log[j][10] = sim.log[i][10]}
    IN  {j \in same : \A k \in same : k <= j}

\* C22: in the main flow and in the counter-attack, the logged probability of
\* a finish duel is that of the evaluation with bonus 1.0 when the creation
\* entry of its own flow is critical and with bonus 0 otherwise, and the
\* logged probability of a shot quality is that of the evaluation with bonus
\* 1.0, 0.5 or 0 for a finish entry right before it of crit level crit_2,
\* crit_1 or none
C22_CritBonusCarried ==
    \A i \in DOMAIN sim.log :
        /\ IsFinish(sim.log[i]) =>
              \E j \in FlowCreation(i) :
                  sim.log[i][5] = Fmt3(DuelProb(sim.log[j][9] \o "_finisher", sim.log[i][7],
                                                sim.log[i][8],
                                                IF sim.log[j][6] THEN 1000 ELSE 0))
        /\ IsShotQuality(sim.log[i]) =>
              /\ i > 1
              /\ IsFinish(sim.log[i - 1])
              /\ sim.log[i - 1][1] = sim.log[i][1]
              /\ sim.log[i][5] = Fmt2(DuelProb(sim.log[i][8], sim.log[i][6], sim.log[i][7],
                                               IF sim.log[i - 1][6] = "crit_2" THEN 1000
                                               ELSE IF sim.log[i - 1][6] = "crit_1" THEN 500
                                               ELSE 0))

\* a finished match with a finish duel after a critical creation and a shot
\* after a crit_1 finish, both logged with another probability than without
\* the bonus, and with a finish duel after a creation that was not critical
\* in a later minute than the critical one
C22_Witness ==
    /\ Finished
    /\ \E i \in DOMAIN sim.log, j \in DOMAIN sim.log :
          /\ IsFinish(sim.log[i]) /\ j \in FlowCreation(i) /\ sim.log[j][6]
          /\ sim.log[i][5] # Fmt3(DuelProb(sim.log[j][9] \o "_finisher", sim.log[i][7],
                                           sim.log[i][8], 0))
          /\ \E k \in DOMAIN sim.log :
                /\ IsFinish(sim.log[k]) /\ sim.log[k][1] > sim.log[i][1]
                /\ \E l \in FlowCreation(k) : ~sim.log[l][6]
    /\ \E i \in DOMAIN sim.log :
          /\ IsShotQuality(sim.log[i]) /\ sim.log[i - 1][6] = "crit_1"
          /\ sim.log[i][5] # Fmt2(DuelProb(sim.log[i][8], sim.log[i][6], sim.log[i][7], 0))


IsCornerDelivery(entry) == entry[2] = "corner" /\ entry[3] = "creation"

IsCornerFinish(entry) == entry[2] = "corner" /\ entry[3] = "finish"

IsCornerShot(entry) == entry[2] = "corner" /\ entry[3] = "shot_quality"

\* entry i belongs to the corner whose locals the simulator still holds: no
\* corner was awarded after it
OfLastCorner(i) ==
    \A j \in (i + 1)..Len(sim.log) :
        ~(sim.log[j][2] = "special" /\ sim.log[j][3] = "corner_kick")

\* C23: the header duel of a corner is logged with the probability of
\* Header_duel under bonus 1.0 when the delivery entry right before it is
\* critical and under bonus 0 otherwise, and the shot quality that follows
\* with the probability of Header under bonus 1.0, 0.5 or 0 for a duel of
\* crit level crit_2, crit_1 or none
C23_CornerBonusCarried ==
    \A i \in DOMAIN sim.log :
        /\ IsCornerFinish(sim.log[i]) =>
              /\ i > 1
              /\ IsCornerDelivery(sim.log[i - 1])
              /\ sim.log[i][5] = Fmt3(DuelProb("Header_duel", sim.log[i][7], sim.log[i][8],
                                               IF sim.log[i - 1][6] THEN 1000 ELSE 0))
        /\ (IsCornerShot(sim.log[i]) /\ OfLastCorner(i)) =>
              /\ IsCornerFinish(sim.log[i - 1])
              /\ sim.log[i][5] = Fmt2(DuelProb("Header", sim.log[i][6], sim.log[i][7],
                                               IF sim.corner.crit_level_finish = "crit_2"
                                               THEN 1000
                                               ELSE IF sim.corner.crit_level_finish = "crit_1"
                                               THEN 500 ELSE 0))


\* the result of the evaluation of the state's event at the roll given, in
\* ten-thousandths
AtRoll(roll) ==
    eval_event(sim.event_type, sim.initiator, sim.defender, sim.x_bonus, roll * 214749 + 1)

\* eval_event has returned its tuple: no ValueError was raised
Returned == sim.pc = "evaluated" /\ ~sim.result.error

\* C24, independence of the outcome: whatever is evaluated, some roll at
\* which the event fails (roll <= prob) registers crit_1 or crit_2
C24_CritIndependentOfOutcome ==
    Returned =>
        \E roll \in 0 .. 9999 :
            /\ Unit(roll * 214749 + 1) = roll
            /\ ~AtRoll(roll).success
            /\ AtRoll(roll).crit_level # "none"

\* C24 amended: the crit level is crit_2 for a roll above
\* prob + 0.7 * (1 - prob), else crit_1 for a roll above
\* prob + 0.3 * (1 - prob), else none; both thresholds lie at or above prob,
\* so an event that registers crit_1 or crit_2 has succeeded and a failed
\* event has crit level none
C24_CritOnlyOnSuccess ==
    Returned =>
        LET ev == sim.result
            prob == ev.prob
        IN  /\ ev.success = (sim.roll > prob)
            /\ ev.crit_level =
                  IF 10 * sim.roll > 10 * prob + 7 * (10000 - prob) THEN "crit_2"
                  ELSE IF 10 * sim.roll > 10 * prob + 3 * (10000 - prob) THEN "crit_1"
                  ELSE "none"
            /\ ev.crit_level # "none" => ev.success
            /\ ~ev.success => ev.crit_level = "none"

\* an evaluation that reaches crit_1, and so succeeded, whose lowest roll
\* fails without a crit level and whose highest roll reaches crit_2
C24_Witness ==
    /\ sim.pc = "evaluated"
    /\ sim.result.crit_level = "crit_1" /\ sim.result.success
    /\ ~AtRoll(0).success /\ AtRoll(0).crit_level = "none"
    /\ AtRoll(9999).crit_level = "crit_2"


IsCounterMarker(entry) == entry[2] = "special" /\ entry[3] = "counter_attack"

\* the failed entry of the main flow that the marker at i answers: a failed
\* creation or a failed finish right before it, of its minute, whose defender
\* the marker names
AnswersFailure(i) ==
    /\ i > 1
    /\ sim.log[i - 1][1] = sim.log[i][1]
    /\ ~InCounter(i - 1)
    /\ sim.log[i - 1][4] = "fail"
    /\ sim.log[i - 1][8] = sim.log[i][4]
    /\ \/ IsCreation(sim.log[i - 1]) /\ sim.log[i][5] = "after_creation_fail"
       \/ IsFinish(sim.log[i - 1]) /\ sim.log[i][5] = "after_finisher_fail"

\* the entry after the marker at i is the creation of the marked player for
\* the side that defended, of a counter chance type
CounterCreationFollows(i) ==
    /\ IsCreation(sim.log[i + 1])
    /\ sim.log[i + 1][1] = sim.log[i][1]
    /\ sim.log[i + 1][7] = sim.log[i][4]
    /\ sim.log[i + 1][10] # sim.log[i - 1][10]
    /\ sim.log[i + 1][10] \in {sim.home_team.name, sim.away_team.name}
    /\ sim.log[i + 1][9] \in CounterChanceTypes

\* C25: a counter_attack marker directly follows a failed creation or a failed
\* finish of the main flow of its minute and names that entry's defender; the
\* next entry is the creation of that player for the side that defended, of
\* chance type Through, Long or Solo; no penalty, free kick or further
\* counter_attack marker is logged after it in that minute, so a minute holds
\* at most one marker
C25_CounterShape ==
    sim.pc \notin {"construct", "rejected"} =>
        \A i \in DOMAIN sim.log :
            IsCounterMarker(sim.log[i]) =>
                /\ AnswersFailure(i)
                /\ IF i < Len(sim.log) THEN CounterCreationFollows(i) ELSE sim.pc = "counter"
                /\ \A j \in (i + 1)..Len(sim.log) :
                      sim.log[j][1] = sim.log[i][1] =>
                          ~IsCounterMarker(sim.log[j]) /\ ~IsAwarded(sim.log[j])

\* a finished match with a counter-attack after a failed finish and one after
\* a failed creation, the first of which goes on beyond its creation
C25_Witness ==
    /\ Finished
    /\ \E i \in DOMAIN sim.log, j \in DOMAIN sim.log :
          /\ IsCounterMarker(sim.log[i]) /\ sim.log[i][5] = "after_finisher_fail"
          /\ i + 1 < Len(sim.log) /\ sim.log[i + 2][1] = sim.log[i][1]
          /\ IsCounterMarker(sim.log[j]) /\ sim.log[j][5] = "after_creation_fail"


IsCornerKick(entry) == entry[2] = "special" /\ entry[3] = "corner_kick"

IsSave(entry) == entry[2] = "result" /\ entry[3] = "save"

\* C26: a corner_kick marker directly follows a result/save entry of its
\* minute with outcome saved and names that entry's team; only entries of the
\* corner follow it in the minute, no second corner_kick and no
\* counter_attack marker among them; and a save entry with outcome goal is
\* the last entry of its minute
C26_CornerAfterSave ==
    sim.pc \notin {"construct", "rejected"} =>
        \A i \in DOMAIN sim.log :
            /\ IsCornerKick(sim.log[i]) =>
                  /\ i > 1
                  /\ IsSave(sim.log[i - 1])
                  /\ sim.log[i - 1][4] = "saved"
                  /\ sim.log[i - 1][1] = sim.log[i][1]
                  /\ sim.log[i][4] = sim.log[i - 1][9]
                  /\ \A j \in (i + 1)..Len(sim.log) :
                        sim.log[j][1] = sim.log[i][1] => sim.log[j][2] = "corner"
            /\ (sim.log[i][3] = "save" /\ sim.log[i][4] = "goal") =>
                  \A j \in (i + 1)..Len(sim.log) : sim.log[j][1] # sim.log[i][1]

\* a finished match in which the saved shot of a counter-attack gives a
\* corner that goes on to its header duel and its shot
C26_Witness ==
    /\ Finished
    /\ \E i \in DOMAIN sim.log :
          /\ IsCornerKick(sim.log[i])
          /\ InCounter(i)
          /\ i + 2 < Len(sim.log)
          /\ IsCornerFinish(sim.log[i + 2])
          /\ IsCornerShot(sim.log[i + 3])


IsFlowSection(entry) == entry[2] \in {"result", "corner"}

\* C27: in the main flow, the counter-attack and the corner, a save entry
\* comes right after the on_target shot_quality entry of its section, minute,
\* finisher, finish type and team; a shot_quality entry comes right after the
\* successful finish entry of its section, minute and finisher; and an
\* off_target shot_quality entry is followed by the finish_outcome miss entry
\* of its section and finisher, the last entry of that minute
C27_PipelineOrder ==
    sim.pc \notin {"construct", "rejected"} =>
        \A i \in DOMAIN sim.log :
            /\ (IsFlowSection(sim.log[i]) /\ sim.log[i][3] = "save") =>
                  /\ i > 1
                  /\ sim.log[i - 1][3] = "shot_quality"
                  /\ sim.log[i - 1][4] = "on_target"
                  /\ \A k \in {1, 2, 6, 8, 9} : sim.log[i - 1][k] = sim.log[i][k]
            /\ (IsFlowSection(sim.log[i]) /\ sim.log[i][3] = "shot_quality") =>
                  /\ i > 1
                  /\ sim.log[i - 1][3] = "finish"
                  /\ sim.log[i - 1][4] = "success"
                  /\ \A k \in {1, 2} : sim.log[i - 1][k] = sim.log[i][k]
                  /\ sim.log[i - 1][7] = sim.log[i][6]
                  /\ sim.log[i][4] = "off_target" =>
                        /\ i < Len(sim.log)
                        /\ sim.log[i + 1][3] = "finish_outcome"
                        /\ sim.log[i + 1][4] = "miss"
                        /\ \A k \in {1, 2, 6} : sim.log[i + 1][k] = sim.log[i][k]
                        /\ \A j \in (i + 2)..Len(sim.log) : sim.log[j][1] # sim.log[i][1]

\* a finished match with a save after a shot on target in the corner, a save
\* in the main flow, and a shot off target followed by its miss and by the
\* entries of a later minute
C27_Witness ==
    /\ Finished
    /\ \E i \in DOMAIN sim.log : sim.log[i][2] = "corner" /\ sim.log[i][3] = "save"
    /\ \E i \in DOMAIN sim.log : IsSave(sim.log[i])
    /\ \E i \in DOMAIN sim.log :
          /\ sim.log[i][3] = "shot_quality" /\ sim.log[i][4] = "off_target"
          /\ i + 1 < Len(sim.log)


\* the types a counter of either split holds
TypesOf(off, def) ==
    DOMAIN off.attempt_by_type \cup DOMAIN off.success_by_type
    \cup DOMAIN def.attempt_by_type \cup DOMAIN def.success_by_type

\* every attempt of the attacking split is an attempt of the defending split
\* and a success of exactly one of the two
Mirrored(off, def) ==
    \A t \in TypesOf(off, def) :
        /\ Get(off.attempt_by_type, t) = Get(def.attempt_by_type, t)
        /\ Get(off.success_by_type, t) + Get(def.success_by_type, t)
               = Get(off.attempt_by_type, t)

DuelsSymmetric(ms) ==
    \A T \in DOMAIN ms.team : \A O \in DOMAIN ms.team \ {T} :
        /\ Mirrored(ms.team[T].creator_off, ms.team[O].creator_def)
        /\ Mirrored(ms.team[T].finisher_off, ms.team[O].finisher_def)

\* C28: in the stats of the log at every minute boundary and in the stats of
\* every collected match, for each team and its opponent and each type, the
\* team's creator_off attempts equal the opponent's creator_def attempts and
\* are the sum of the team's creator_off successes and the opponent's
\* creator_def successes; the same for finisher_off and finisher_def
C28_DuelsSymmetric ==
    /\ sim.pc \in {"run", "done"} => DuelsSymmetric(Stats)
    /\ \A i \in DOMAIN bench.all_stats : DuelsSymmetric(bench.all_stats[i])

\* a collected match in which Away has won a creation and lost another of the
\* same chance type, and has lost a finish duel
C28_Witness ==
    \E i \in DOMAIN bench.all_stats :
        LET home == bench.all_stats[i].team["Home"]
            away == bench.all_stats[i].team["Away"]
        IN  /\ \E t \in DOMAIN away.creator_off.attempt_by_type :
                  /\ Get(away.creator_off.success_by_type, t) >= 1
                  /\ Get(home.creator_def.success_by_type, t) >= 1
            /\ \E t \in DOMAIN home.finisher_def.success_by_type :
                  Get(home.finisher_def.success_by_type, t) >= 1


\* rosters that Team accepts for Away: the goalkeeper on the position code GK,
\* and the same eleven with the goalkeeper on the code of a centre back (the
\* position code and the goalkeeper flag are separate fields of the request)
KeeperRosters ==
    {Roster("A", Layout442, 5),
     [Roster("A", Layout442, 5) EXCEPT ![1].matrix_position = "DC"]}

InitKeeper ==
    \E seed \in 1 .. MaxKeeperSeed, away \in KeeperRosters, minutes \in 1 .. MaxMinutes :
        /\ rng = RngSeed(seed)
        /\ sim = Request(Roster("H", Layout442, 10), away, minutes)
        /\ bench = Bench(RngSeed(seed))

SpecKeeper == InitKeeper /\ [][Next]_vars

\* the goalkeeper stats of a team's goalkeeper, empty when nothing was booked
KeeperStatsOf(ms, team) ==
    LET key == <<team.name, get_goalkeeper(team).name>>
    IN  IF key \in DOMAIN ms.player THEN ms.player[key].goalkeeper_stats ELSE GoalkeeperStats

ShotsMirrored(ms, shooting, keeper) ==
    \A t \in DOMAIN shooting.shots_by_type \cup DOMAIN shooting.shots_on_by_type
             \cup DOMAIN keeper.shots_conceded_by_type
             \cup DOMAIN keeper.shots_on_target_by_type :
        /\ Get(keeper.shots_conceded_by_type, t) = Get(shooting.shots_by_type, t)
        /\ Get(keeper.shots_on_target_by_type, t) = Get(shooting.shots_on_by_type, t)

\* C29: in the stats of the log at every minute boundary of a match between
\* accepted teams, for each team and each shot type, the goalkeeper of the
\* other team has as many shots conceded as the team has shots, and as many
\* shots on target faced as the team has shots on target
C29_ShotsMirrored ==
    sim.pc \in {"run", "done"} =>
        /\ ShotsMirrored(Stats, Stats.team[sim.home_team.name].shooting,
                         KeeperStatsOf(Stats, sim.away_team))
        /\ ShotsMirrored(Stats, Stats.team[sim.away_team.name].shooting,
                         KeeperStatsOf(Stats, sim.home_team))


\* the entries the simulator appends right after an eval_event call with the
\* skills_used of that call; finish_outcome repeats those of the shot quality
IsEvaluation(entry) ==
    \/ entry[2] \in {"result", "corner"}
          /\ entry[3] \in {"creation", "goalkeeper_intercept", "finish", "shot_quality", "save"}
    \/ entry[2] = "special_result" /\ entry[3] \in {"penalty", "free_kick"}

\* the event type the simulator passed to the evaluation that produced entry i
EvaluatedAs(i) ==
    LET entry == sim.log[i]
    IN  IF entry[2] = "special_result"
        THEN (IF entry[3] = "penalty" THEN "Penalty" ELSE "Freekick")
        ELSE IF entry[3] = "creation" THEN entry[9]
        ELSE IF entry[3] = "finish" /\ entry[2] = "corner" THEN entry[9] \o "_duel"
        ELSE IF entry[3] = "finish"
        THEN sim.log[CHOOSE j \in FlowCreation(i) : TRUE][9] \o "_finisher"
        ELSE IF entry[3] = "goalkeeper_intercept" THEN entry[8] \o "_intercept"
        ELSE IF entry[3] = "shot_quality" THEN entry[8]
        ELSE entry[8] \o "_save"

\* the loop of the aggregator takes entry i: a team's unweighted ledger is left
\* alone or gains the entry's skills under the evaluated event type, at least
\* one team's ledger gains them, and an entry that is no evaluation of its own
\* adds nothing
UsageMirrors(i) ==
    LET st == agg_state(sim.home_team, sim.away_team, SubSeq(sim.log, 1, i - 1))
        after == agg_entry(st, sim.log[i]).ms
        booked(t) == add_usage(st.ms.team[t].skill_usage, SkillsUsed(sim.log[i]), EvaluatedAs(i))
    IN  IF IsEvaluation(sim.log[i])
        THEN /\ \A t \in DOMAIN st.ms.team :
                   after.team[t].skill_usage \in {st.ms.team[t].skill_usage, booked(t)}
             /\ \E t \in DOMAIN st.ms.team : after.team[t].skill_usage = booked(t)
        ELSE \A t \in DOMAIN st.ms.team : after.team[t].skill_usage = st.ms.team[t].skill_usage

\* C30: at every minute boundary, the aggregator books the skills of every
\* evaluated log entry under the event type the simulator evaluated (the
\* finish duel under {chance_type}_finisher, the corner duel under
\* Header_duel), once, and books nothing for the other entries
C30_UsageMirrorsProducer ==
    sim.pc \in {"run", "done"} => \A i \in DOMAIN sim.log : UsageMirrors(i)


\* the event types of the eval_event calls of run(), _handle_counter_attack,
\* handle_corner, handle_penalty and handle_freekick
SimulatorEventTypes ==
    Range(CHANCE_TYPES)
    \cup {t \o "_intercept" : t \in {"Long", "Through", "Crossing"}}
    \cup {t \o "_finisher" : t \in Range(CHANCE_TYPES)}
    \cup Range(FINISH_TYPES)
    \cup {t \o "_save" : t \in Range(FINISH_TYPES)}
    \cup {"Penalty", "Freekick", "Corner", "Header_duel"}

\* C31: each of the 29 event types of the simulator has a formula and a
\* skills entry; an evaluation raises exactly for an event type without a
\* formula, so for none of the simulator's, and one that raises leaves the
\* random source as it was, while every other one draws once
C31_EventTypesClosed ==
    /\ Cardinality(SimulatorEventTypes) = 29
    /\ \A t \in SimulatorEventTypes :
          /\ t \in DOMAIN EVENT_X_FORMULAS
          /\ RowOf(EVENT_SKILL_WEIGHTS, t) # <<>>
    /\ sim.pc = "evaluated" =>
          /\ sim.result.error <=> sim.event_type \notin DOMAIN EVENT_X_FORMULAS
          /\ sim.event_type \in SimulatorEventTypes => ~sim.result.error
          /\ rng = IF sim.result.error THEN bench.seed ELSE RngNext(bench.seed)

\* the header duel of the corner has been evaluated and has drawn its roll
C31_Witness ==
    /\ sim.pc = "evaluated"
    /\ sim.event_type = "Header_duel"
    /\ ~sim.result.error
    /\ sim.result.skills_used # <<>>
    /\ rng # bench.seed


\* the roster of the team named in a log entry, and of the other team
RosterNamed(team_name) ==
    IF team_name = sim.home_team.name THEN sim.home_team.players ELSE sim.away_team.players

RosterAgainst(team_name) ==
    IF team_name = sim.home_team.name THEN sim.away_team.players ELSE sim.home_team.players

\* name is a player of the roster other than excluded, and fewer than five
\* players of the roster other than excluded have more Heading + Jump Reach
AmongFiveHighest(name, roster, excluded) ==
    \E k \in DOMAIN roster :
        /\ roster[k].name = name
        /\ name # excluded
        /\ Cardinality({j \in DOMAIN roster :
                           /\ roster[j].name # excluded
                           /\ Aerial(roster[j]) > Aerial(roster[k])}) < 5

\* C32: every header duel of a corner follows the successful delivery of its
\* corner; its finisher is not the taker and is among the five highest in
\* Heading + Jump Reach of the attacking team without the taker, its
\* finish-defender is among the five highest of the defending team, and the
\* duel and every corner entry after it have finish type Header
C32_CornerHeaders ==
    \A i \in DOMAIN sim.log :
        /\ IsCornerFinish(sim.log[i]) =>
              /\ i > 1
              /\ IsCornerDelivery(sim.log[i - 1])
              /\ sim.log[i - 1][4] = "success"
              /\ sim.log[i - 1][1] = sim.log[i][1]
              /\ sim.log[i - 1][10] = sim.log[i][10]
              /\ sim.log[i][7] # sim.log[i - 1][7]
              /\ AmongFiveHighest(sim.log[i][7], RosterNamed(sim.log[i][10]), sim.log[i - 1][7])
              /\ AmongFiveHighest(sim.log[i][8], RosterAgainst(sim.log[i][10]), None)
              /\ sim.log[i][9] = "Header"
        /\ sim.log[i][2] = "corner" /\ sim.log[i][3] \in {"shot_quality", "save", "finish_outcome"}
              => sim.log[i][8] = "Header"

\* a finished match with a corner taken by an outfield player, as high in
\* Heading + Jump Reach as the finisher of its header duel, whose header went
\* on to its shot
C32_Witness ==
    /\ Finished
    /\ \E i \in DOMAIN sim.log :
          /\ IsCornerFinish(sim.log[i]) /\ i < Len(sim.log)
          /\ Aerial(PlayerNamed(sim.log[i - 1][7])) >= Aerial(PlayerNamed(sim.log[i][7]))
          /\ IsCornerShot(sim.log[i + 1])


IsSetPiece(entry) == entry[2] = "special_result" /\ entry[3] \in {"penalty", "free_kick"}

\* C33: the taker of every penalty and free kick in the log is a player of
\* the attacking team other than its goalkeeper, and the entry names the
\* goalkeeper of the other team as the opponent
C33_SetPieceTaker ==
    \A i \in DOMAIN sim.log :
        IsSetPiece(sim.log[i]) =>
            /\ \E k \in DOMAIN RosterNamed(sim.log[i][8]) :
                  /\ RosterNamed(sim.log[i][8])[k].name = sim.log[i][6]
                  /\ ~RosterNamed(sim.log[i][8])[k].is_goalkeeper
            /\ sim.log[i][7] =
                  get_goalkeeper([players |-> RosterAgainst(sim.log[i][8])]).name


\* the simulators of SpecKeeper's requests of one minute, at their first minute
KeeperSimulators ==
    {[build_matrices(Request(Roster("H", Layout442, 10), away, 1))
         EXCEPT !.pc = "run", !.minute = 1] : away \in KeeperRosters}

\* run() right after the entry of a successful creation: the two draws that
\* award a penalty or a free kick come next, and the random source yields any
\* number up to MaxAwardRoll / 10000 first
InitSetPiece ==
    \E simulator \in KeeperSimulators, seed \in 1 .. MaxSetPieceSeed :
        \E o \in run_creation(simulator, RngSeed(seed)) :
            /\ o.sim.pc = "post_creation"
            /\ o.sim.main.success
            /\ sim = o.sim
            /\ bench = Bench(RngSeed(seed))
            /\ \E roll \in 0 .. MaxAwardRoll : rng = roll * 214749 + 1

NextSetPiece == PostCreation

SpecSetPiece == InitSetPiece /\ [][NextSetPiece]_vars


\* a creator matrix: no weight on a position without a player, none on GK
CreatorMatrixSound(matrix, team) ==
    \A i \in DOMAIN matrix :
        /\ matrix[i][2] >= 0
        /\ CountAt(team, matrix[i][1]) = 0 => matrix[i][2] = 0
        /\ matrix[i][1] = "GK" => matrix[i][2] = 0

\* a row over positions of the roster only, whose weights (kept as numerators
\* over their total) sum to 1 or are all zero
RowSound(row, team) ==
    /\ \A i \in DOMAIN row : row[i][1] \in PositionsOf(team) /\ row[i][2] >= 0
    /\ SumWeights(row) > 0 \/ \A i \in DOMAIN row : row[i][2] = 0

RowsSound(matrix, team) == \A k \in DOMAIN matrix : RowSound(matrix[k], team)

\* C34: once the matrices are built, both creator matrices give no weight to
\* a position without a player nor to GK, every row of the finisher and
\* defender matrices holds only positions of its roster and sums to 1 or is
\* all zero; the creator of a main-flow creation stands on the position drawn
\* for him and is not the goalkeeper of his team
C34_MatricesSound ==
    sim.pc \notin {"construct", "rejected"} =>
        /\ CreatorMatrixSound(sim.home_creator_matrix, sim.home_team)
        /\ CreatorMatrixSound(sim.away_creator_matrix, sim.away_team)
        /\ \A t \in DOMAIN sim.home_finisher_matrices :
              RowsSound(sim.home_finisher_matrices[t], sim.home_team)
        /\ \A t \in DOMAIN sim.away_finisher_matrices :
              RowsSound(sim.away_finisher_matrices[t], sim.away_team)
        /\ RowsSound(sim.home_creator_vs_away_defend, sim.away_team)
        /\ RowsSound(sim.home_finish_vs_away_defend, sim.away_team)
        /\ RowsSound(sim.away_creator_vs_home_defend, sim.home_team)
        /\ RowsSound(sim.away_finish_vs_home_defend, sim.home_team)
        /\ sim.pc = "post_creation" =>
              /\ sim.main.creator_pos \in PositionsOf(AtkTeam(sim, sim.main))
              /\ sim.main.creator.matrix_position = sim.main.creator_pos
              /\ \E k \in DOMAIN AtkTeam(sim, sim.main).players :
                    AtkTeam(sim, sim.main).players[k] = sim.main.creator
              /\ ~sim.main.creator.is_goalkeeper


\* the counters of a split, of goalkeeper stats or of an unweighted ledger
\* after a merge: each is the value before plus the value of the other
CountersAdded(before, other, after) ==
    \A f \in DOMAIN before :
        /\ DOMAIN after[f] = DOMAIN before[f] \cup DOMAIN other[f]
        /\ \A k \in DOMAIN after[f] : after[f][k] = Get(before[f], k) + Get(other[f], k)

\* the weighted ledger after a merge: each float is the float before plus the
\* float of the other
WeightsAdded(before, other, after) ==
    /\ AsDict(after.usage_by_event)
           = [k \in DOMAIN AsDict(before.usage_by_event) \cup DOMAIN AsDict(other.usage_by_event) |->
                 FloatAdd(FloatGet(AsDict(before.usage_by_event), k),
                          FloatGet(AsDict(other.usage_by_event), k))]
    /\ after.total_usage
           = [s \in DOMAIN before.total_usage \cup DOMAIN other.total_usage |->
                 FloatAdd(FloatGet(before.total_usage, s), FloatGet(other.total_usage, s))]

TeamAdded(before, other, after) ==
    /\ after.name = before.name
    /\ \A f \in {"creator_off", "creator_def", "finisher_off", "finisher_def", "shooting"} :
          CountersAdded(before[f], other[f], after[f])
    /\ CountersAdded([f \in {"result_frequency", "score_frequency"} |-> before[f]],
                     other, after)
    /\ CountersAdded(before.skill_usage, other.skill_usage, after.skill_usage)

PlayerAdded(before, other, after) ==
    /\ \A f \in {"name", "team", "position"} : after[f] = before[f]
    /\ \A f \in {"creator_off", "creator_def", "finisher_off", "finisher_def", "shooting"} :
          CountersAdded(before[f], other[f], after[f])
    /\ CountersAdded([f \in {"assists_by_chance_type"} |-> before[f]], other, after)
    /\ CountersAdded([f \in DOMAIN before.goalkeeper_stats
                            \ {"corner_intercepts_attempted", "corner_intercepts_successful"} |->
                         before.goalkeeper_stats[f]],
                     other.goalkeeper_stats, after.goalkeeper_stats)
    /\ \A f \in {"corner_intercepts_attempted", "corner_intercepts_successful"} :
          after.goalkeeper_stats[f] = before.goalkeeper_stats[f] + other.goalkeeper_stats[f]
    /\ \A f \in {"corners_taken", "corners_successful", "corner_shots",
                 "corner_shots_success", "corner_goals"} : after[f] = before[f] + other[f]
    /\ CountersAdded(before.skill_usage, other.skill_usage, after.skill_usage)

\* A.merge(B) on the integer counters; a player of B that A lacks arrives with B's counters
IntegersAdded(A, B, after) ==
    /\ DOMAIN after.team = DOMAIN A.team
    /\ \A t \in DOMAIN A.team : TeamAdded(A.team[t], B.team[t], after.team[t])
    /\ DOMAIN after.player = DOMAIN A.player \cup DOMAIN B.player
    /\ \A key \in DOMAIN B.player :
          PlayerAdded(ps(A, key[1], key[2]).player[key], B.player[key], after.player[key])
    /\ \A key \in DOMAIN A.player \ DOMAIN B.player : after.player[key] = A.player[key]

FloatsAdded(A, B, after) ==
    /\ \A t \in DOMAIN A.team :
          WeightsAdded(A.team[t].weighted_skill_usage, B.team[t].weighted_skill_usage,
                       after.team[t].weighted_skill_usage)
    /\ \A key \in DOMAIN B.player :
          WeightsAdded(ps(A, key[1], key[2]).player[key].weighted_skill_usage,
                       B.player[key].weighted_skill_usage,
                       after.player[key].weighted_skill_usage)

\* batch_simulate's merges, one after the other: <<A, B, A after A.merge(B)>>
RECURSIVE Merges(_, _, _)
Merges(aggregated, all_stats, i) ==
    IF i > Len(all_stats) THEN <<>>
    ELSE <<<<aggregated, all_stats[i], merge(aggregated, all_stats[i])>>>>
         \o Merges(merge(aggregated, all_stats[i]), all_stats, i + 1)

BatchMerges == Merges(bench.all_stats[1], bench.all_stats, 2)

\* C35: A.merge(B) leaves in A, for every team and player, each counter at its
\* value before plus its value in B (the floats of the weighted ledger
\* included), adds the players only B has, and leaves B as it was
C35_MergePointwise ==
    [][sim.pc = "collected" /\ sim'.pc = "aggregated" =>
          /\ \A i \in DOMAIN BatchMerges :
                /\ IntegersAdded(BatchMerges[i][1], BatchMerges[i][2], BatchMerges[i][3])
                /\ FloatsAdded(BatchMerges[i][1], BatchMerges[i][2], BatchMerges[i][3])
          /\ bench'.aggregated = BatchMerges[Len(BatchMerges)][3]
          /\ \A i \in 2 .. Len(bench.all_stats) : bench'.all_stats[i] = bench.all_stats[i]]_vars


\* C36: each team that construction accepted has exactly one player on the
\* position code GK, the player get_goalkeeper() returns, so that the
\* aggregator's scan of the roster for the code GK names the goalkeeper of
\* the simulator
C36_OneKeeperByCode ==
    sim.pc \notin {"construct", "rejected"} =>
        \A team \in {sim.home_team, sim.away_team} :
            /\ get_players_by_position(team, "GK") = <<get_goalkeeper(team)>>
            /\ def_goalkeeper(team) = get_goalkeeper(team).name


\* the shots on target of a team, the goals of the team and the saves of the
\* other team's goalkeeper, type by type
ShotsResolved(shooting, keeper) ==
    \A t \in DOMAIN shooting.shots_on_by_type \cup DOMAIN shooting.goals_by_type
             \cup DOMAIN keeper.saves_by_type :
        Get(shooting.shots_on_by_type, t)
            = Get(shooting.goals_by_type, t) + Get(keeper.saves_by_type, t)

OnTargetResolved(ms) ==
    /\ ShotsResolved(ms.team[ms.home_team.name].shooting, KeeperStatsOf(ms, ms.away_team))
    /\ ShotsResolved(ms.team[ms.away_team.name].shooting, KeeperStatsOf(ms, ms.home_team))

\* C37: in the stats aggregated from the log of every completed match of a
\* batch, for each team and each shot type, the team's shots on target are
\* its goals plus the saves of the other team's goalkeeper
C37_OnTargetResolved ==
    \A i \in DOMAIN bench.all_stats : OnTargetResolved(bench.all_stats[i])

\* a collected match in which a team has a goal and a saved shot of one shot type
C37_Witness ==
    \E i \in DOMAIN bench.all_stats :
        LET ms == bench.all_stats[i]
        IN  /\ \E T \in DOMAIN ms.team :
                  \E t \in DOMAIN ms.team[T].shooting.goals_by_type :
                      /\ ms.team[T].shooting.goals_by_type[t] >= 1
                      /\ ms.team[T].shooting.shots_on_by_type[t]
                             > ms.team[T].shooting.goals_by_type[t]


\* the sum of one counter at one type over the ledgers of a team's players
RECURSIVE PlayerSum(_, _, _, _, _)
PlayerSum(ms, keys, split, field, t) ==
    IF keys = {} THEN 0
    ELSE LET key == CHOOSE k \in keys : TRUE
         IN  Get(ms.player[key][split][field], t)
             + PlayerSum(ms, keys \ {key}, split, field, t)

LedgerCounters ==
    {<<"shooting", "shots_by_type">>, <<"shooting", "shots_on_by_type">>,
     <<"shooting", "goals_by_type">>,
     <<"creator_off", "attempt_by_type">>, <<"creator_off", "success_by_type">>,
     <<"finisher_off", "attempt_by_type">>, <<"finisher_off", "success_by_type">>}

LedgersAgree(ms) ==
    \A T \in DOMAIN ms.team : \A c \in LedgerCounters :
        LET keys == {key \in DOMAIN ms.player : key[1] = T}
            types == DOMAIN ms.team[T][c[1]][c[2]]
                     \cup UNION {DOMAIN ms.player[key][c[1]][c[2]] : key \in keys}
        IN  \A t \in types :
                Get(ms.team[T][c[1]][c[2]], t) = PlayerSum(ms, keys, c[1], c[2], t)

\* C38: in the stats of every collected match and in the stats after each
\* merge of the batch, for every team and every type, the team's shots, shots
\* on target, goals and creator_off and finisher_off attempts and successes
\* are the sums of the same counters over the ledgers of the team's players
C38_LedgersAgree ==
    /\ \A i \in DOMAIN bench.all_stats : LedgersAgree(bench.all_stats[i])
    /\ sim.pc = "aggregated" =>
          /\ LedgersAgree(bench.aggregated)
          /\ \A i \in DOMAIN BatchMerges : LedgersAgree(BatchMerges[i][3])

\* a batch whose merged stats hold goals of two players of one team
C38_Witness ==
    /\ sim.pc = "aggregated"
    /\ \E T \in DOMAIN bench.aggregated.team :
          /\ Total(bench.aggregated.team[T].shooting.goals_by_type) >= 2
          /\ \A key \in DOMAIN bench.aggregated.player :
                Total(bench.aggregated.player[key].shooting.goals_by_type)
                    < Total(bench.aggregated.team[T].shooting.goals_by_type)
          /\ Total(bench.aggregated.team[T].creator_off.success_by_type) >= 1


\* sum(usage_by_event[skill].values()) of a SkillUsage
RECURSIVE EventSum(_, _)
EventSum(usage_by_event, keys) ==
    IF keys = {} THEN 0
    ELSE LET key == CHOOSE k \in keys : TRUE
         IN  usage_by_event[key] + EventSum(usage_by_event, keys \ {key})

TotalsAgree(su) ==
    /\ {key[1] : key \in DOMAIN su.usage_by_event} = DOMAIN su.total_usage
    /\ \A skill \in DOMAIN su.total_usage :
          su.total_usage[skill]
              = EventSum(su.usage_by_event,
                         {key \in DOMAIN su.usage_by_event : key[1] = skill})

\* the same for a WeightedSkillUsage: the float sum of the skill's weights by
\* event type, in the order the dict of the skill iterates
WeightedTotalsAgree(wu) ==
    /\ {wu.usage_by_event[i][1][1] : i \in DOMAIN wu.usage_by_event} = DOMAIN wu.total_usage
    /\ \A skill \in DOMAIN wu.total_usage :
          wu.total_usage[skill]
              = FloatSum(FloatZero,
                         SelectSeq(wu.usage_by_event, LAMBDA item : item[1][1] = skill))

UsageTotalsAgree(ms) ==
    /\ \A T \in DOMAIN ms.team : TotalsAgree(ms.team[T].skill_usage)
    /\ \A key \in DOMAIN ms.player : TotalsAgree(ms.player[key].skill_usage)

WeightedUsageTotalsAgree(ms) ==
    /\ \A T \in DOMAIN ms.team : WeightedTotalsAgree(ms.team[T].weighted_skill_usage)
    /\ \A key \in DOMAIN ms.player : WeightedTotalsAgree(ms.player[key].weighted_skill_usage)

\* C39: in every skill-usage ledger, unweighted and weighted, of the stats of
\* every collected match (add_usage only) and of the stats after each merge
\* of the batch, the total of each skill is the sum of the skill's usage over
\* the event types
C39_TotalIsSumByEvent ==
    /\ \A i \in DOMAIN bench.all_stats :
          /\ UsageTotalsAgree(bench.all_stats[i])
          /\ WeightedUsageTotalsAgree(bench.all_stats[i])
    /\ sim.pc = "aggregated" =>
          \A i \in DOMAIN BatchMerges :
              /\ UsageTotalsAgree(BatchMerges[i][3])
              /\ WeightedUsageTotalsAgree(BatchMerges[i][3])

=============================================================================
